---------------------------- MODULE Spec2Model ----------------------------
(***************************************************************************)
(* A model of the DML mapper of src/src/mapper.py: the Tokenizer (ordered  *)
(* regular-expression lexing), the recursive-descent Parser and the        *)
(* CodeGenerator.  Texts are sequences of one-character strings; offsets   *)
(* are 0-based as in the Python source, so the character at offset p of a  *)
(* text t is t[p + 1].                                                     *)
(***************************************************************************)
EXTENDS Integers, Sequences, FiniteSets, TLC

VARIABLES
    text,       \* Tokenizer.text: the DML text handed to Parser(text)
    lpos,       \* Tokenizer.tokenize: local pos
    ltokens,    \* Tokenizer.tokenize: local tokens
    tokens,     \* Parser.tokens
    pos,        \* Parser.pos
    pc,         \* the control location of the running call
    err,        \* the exception raised by the running call (NoErr: none)
    name,       \* parse_mapping: name
    sources,    \* parse_mapping: sources
    target,     \* parse_mapping: target
    component,  \* parse_mapping: component
    rules,      \* parse_mapping: rules
    sect,       \* parse_source_target: its locals and its caller
    frames,     \* parse_rules / parse_loop_rule: the open rule lists
    rule,       \* parse_rule: its locals
    call,       \* parse_function_call / parse_condition: their locals
    outcomes,   \* what each Parser.parse() call of this instance ended with
    generated,  \* what each CodeGenerator.generate() call ended with
    doc,        \* the description of the input that text is the rendering of
    executed    \* what the last run of a routine of the generated program ended with

vars == <<text, lpos, ltokens, tokens, pos, pc, err, name, sources, target,
          component, rules, sect, frames, rule, call, outcomes, generated, doc, executed>>

lexVars == <<text, lpos, ltokens>>
astVars == <<name, sources, target, component, rules>>
subVars == <<sect, frames, rule, call>>

-----------------------------------------------------------------------------
(* Characters *)

LowerSeq == <<"a","b","c","d","e","f","g","h","i","j","k","l","m",
              "n","o","p","q","r","s","t","u","v","w","x","y","z">>
UpperSeq == <<"A","B","C","D","E","F","G","H","I","J","K","L","M",
              "N","O","P","Q","R","S","T","U","V","W","X","Y","Z">>
LowerSet == {LowerSeq[i] : i \in 1..26}
UpperSet == {UpperSeq[i] : i \in 1..26}
Letter == LowerSet \cup UpperSet
Digit == {"0","1","2","3","4","5","6","7","8","9"}
WordChar == Letter \cup Digit \cup {"_"}
SpaceChar == {" ", "\n", "\t", "\r"}

LowerOf == [c \in UpperSet |-> LowerSeq[CHOOSE i \in 1..26 : UpperSeq[i] = c]]
UpperOf == [c \in LowerSet |-> UpperSeq[CHOOSE i \in 1..26 : LowerSeq[i] = c]]

\* str.lower() and str.upper() on one character
ToLowerChar(c) == IF c \in UpperSet THEN LowerOf[c] ELSE c
ToUpperChar(c) == IF c \in LowerSet THEN UpperOf[c] ELSE c
\* str.lower() and str.upper()
ToLower(s) == [i \in 1..Len(s) |-> ToLowerChar(s[i])]
ToUpper(s) == [i \in 1..Len(s) |-> ToUpperChar(s[i])]

Min(S) == CHOOSE x \in S : \A y \in S : x <= y
Max(S) == CHOOSE x \in S : \A y \in S : x >= y

RECURSIVE RunLen(_, _, _)
\* The length of the longest run of characters of class S at offset p of t.
RunLen(t, p, S) ==
    IF p < Len(t) /\ t[p + 1] \in S THEN 1 + RunLen(t, p + 1, S) ELSE 0

\* Whether the literal lit stands at offset p of t.
LitAt(t, p, lit) ==
    /\ p + Len(lit) <= Len(t)
    /\ \A i \in 1..Len(lit) : t[p + i] = lit[i]

-----------------------------------------------------------------------------
(* Tokenizer.TOKENS: the ordered (kind, pattern) list.  A pattern is       *)
(* <<"kw", letters, b>> for a case-insensitive keyword ([Mm][Aa]..., with  *)
(* a trailing \b when b), <<"lit", chars>> for a literal, or the name of   *)
(* one of the six character-class patterns.                                *)

TOKENS == <<
    <<"MAPPING",   <<"kw", <<"m","a","p","p","i","n","g">>, TRUE>> >>,
    <<"SOURCE",    <<"kw", <<"s","o","u","r","c","e">>, TRUE>> >>,
    <<"TARGET",    <<"kw", <<"t","a","r","g","e","t">>, TRUE>> >>,
    <<"RULES",     <<"kw", <<"r","u","l","e","s">>, TRUE>> >>,
    <<"XML",       <<"kw", <<"x","m","l">>, TRUE>> >>,
    <<"CSV",       <<"kw", <<"c","s","v">>, TRUE>> >>,
    <<"DB",        <<"kw", <<"d","b">>, TRUE>> >>,
    <<"EDI",       <<"kw", <<"e","d","i">>, TRUE>> >>,
    <<"JSON",      <<"kw", <<"j","s","o","n">>, TRUE>> >>,
    <<"COMPONENT", <<"kw", <<"c","o","m","p","o","n","e","n","t">>, TRUE>> >>,
    <<"IF",        <<"kw", <<"i","f">>, FALSE>> >>,
    <<"ELSE",      <<"kw", <<"e","l","s","e">>, FALSE>> >>,
    <<"TRANSFORM", <<"kw", <<"t","r","a","n","s","f","o","r","m">>, FALSE>> >>,
    <<"DEFAULT",   <<"kw", <<"d","e","f","a","u","l","t">>, FALSE>> >>,
    <<"AS",        <<"kw", <<"a","s">>, TRUE>> >>,
    <<"MAP",       <<"kw", <<"m","a","p">>, TRUE>> >>,
    <<"LOOP",      <<"kw", <<"l","o","o","p">>, FALSE>> >>,
    <<"AGGREGATE", <<"kw", <<"a","g","g","r","e","g","a","t","e">>, FALSE>> >>,
    <<"FUNCTION",  <<"kw", <<"f","u","n","c","t","i","o","n">>, FALSE>> >>,
    <<"WHEN",      <<"kw", <<"w","h","e","n">>, FALSE>> >>,
    <<"THEN",      <<"kw", <<"t","h","e","n">>, FALSE>> >>,
    <<"LBRACE",    <<"lit", <<"{">> >> >>,
    <<"RBRACE",    <<"lit", <<"}">> >> >>,
    <<"LPAREN",    <<"lit", <<"(">> >> >>,
    <<"RPAREN",    <<"lit", <<")">> >> >>,
    <<"LBRACKET",  <<"lit", <<"[">> >> >>,
    <<"RBRACKET",  <<"lit", <<"]">> >> >>,
    <<"ARROW",     <<"lit", <<"-",">">> >> >>,
    <<"COMMA",     <<"lit", <<",">> >> >>,
    <<"COLON",     <<"lit", <<":">> >> >>,
    <<"GT",        <<"lit", <<">">> >> >>,
    <<"LT",        <<"lit", <<"<">> >> >>,
    <<"GE",        <<"lit", <<">","=">> >> >>,
    <<"LE",        <<"lit", <<"<","=">> >> >>,
    <<"EQ",        <<"lit", <<"=","=">> >> >>,
    <<"ASSIGN",    <<"lit", <<"=">> >> >>,
    <<"PLUS",      <<"lit", <<"+">> >> >>,
    <<"MINUS",     <<"lit", <<"-">> >> >>,
    <<"STAR",      <<"lit", <<"*">> >> >>,
    <<"SLASH",     <<"lit", <<"/">> >> >>,
    <<"PERCENT",   <<"lit", <<"%">> >> >>,
    <<"DOT",       <<"lit", <<".">> >> >>,
    <<"IDENT",     <<"ident">> >>,
    <<"STRING",    <<"string">> >>,
    <<"NUMBER",    <<"number">> >>,
    <<"SLASHPATH", <<"slashpath">> >>,
    <<"WS",        <<"ws">> >>,
    <<"COMMENT",   <<"comment">> >> >>

\* [Kk][Ww]... with an optional \b: the letters in either case, and then
\* (with b) no word character.
MatchKeyword(t, p, letters, b) ==
    IF /\ p + Len(letters) <= Len(t)
       /\ \A i \in 1..Len(letters) : ToLowerChar(t[p + i]) = letters[i]
          /\ t[p + i] \in Letter
       /\ (b => (p + Len(letters) = Len(t)
                 \/ t[p + Len(letters) + 1] \notin WordChar))
    THEN Len(letters) ELSE 0

MatchLiteral(t, p, lit) == IF LitAt(t, p, lit) THEN Len(lit) ELSE 0

\* [a-zA-Z_][a-zA-Z0-9_/]*|[0-9]+[a-zA-Z0-9_/]*
MatchIdent(t, p) ==
    IF t[p + 1] \in Letter \cup {"_"} \cup Digit
    THEN RunLen(t, p, WordChar \cup {"/"})
    ELSE 0

\* MatchString with a string literal that must not hold a @
MatchStringNoAt(t, p) ==
    LET q == t[p + 1]
        closing == {k \in (p + 2)..Len(t) : t[k] = q}
    IN  IF /\ q \in {"\"", "'"}
           /\ closing # {}
           /\ \A k \in (p + 2)..Min(closing) : t[k] # "@"
        THEN Min(closing) - p ELSE 0

\* "[^"]*"|'[^']*'
MatchString(t, p) ==
    LET q == t[p + 1]
        closing == {k \in (p + 2)..Len(t) : t[k] = q}
    IN  IF q \in {"\"", "'"} /\ closing # {} THEN Min(closing) - p ELSE 0

\* -?\d+(\.\d+)?
MatchNumber(t, p) ==
    LET sign == IF t[p + 1] = "-" THEN 1 ELSE 0
        int == RunLen(t, p + sign, Digit)
        dot == p + sign + int
        frac == IF dot < Len(t) /\ t[dot + 1] = "." THEN RunLen(t, dot + 1, Digit)
                ELSE 0
    IN  IF int = 0 THEN 0
        ELSE IF frac = 0 THEN sign + int
        ELSE sign + int + 1 + frac

\* [a-zA-Z0-9_/-]+/[a-zA-Z0-9_/]*  (greedy, backtracking to the last slash
\* of the first run that has a character before it)
MatchSlashPath(t, p) ==
    LET run == RunLen(t, p, WordChar \cup {"/", "-"})
        slashes == {k \in 1..(run - 1) : t[p + k + 1] = "/"}
    IN  IF slashes = {} THEN 0
        ELSE Max(slashes) + 1 + RunLen(t, p + Max(slashes) + 1, WordChar \cup {"/"})

\* \s+
MatchWs(t, p) == RunLen(t, p, SpaceChar)

\* #.*$ under re.MULTILINE: to the end of the line
MatchComment(t, p) ==
    LET newlines == {k \in (p + 2)..Len(t) : t[k] = "\n"}
    IN  IF t[p + 1] # "#" THEN 0
        ELSE IF newlines = {} THEN Len(t) - p
        ELSE Min(newlines) - 1 - p

\* regex.match(self.text, pos) for the pattern pat: the length matched at
\* offset p (every pattern of TOKENS matches at least one character), 0: none
MatchLen(pat, t, p) ==
    CASE pat[1] = "kw"        -> MatchKeyword(t, p, pat[2], pat[3])
      [] pat[1] = "lit"       -> MatchLiteral(t, p, pat[2])
      [] pat[1] = "ident"     -> MatchIdent(t, p)
      [] pat[1] = "string"    -> MatchString(t, p)
      [] pat[1] = "number"    -> MatchNumber(t, p)
      [] pat[1] = "slashpath" -> MatchSlashPath(t, p)
      [] pat[1] = "ws"        -> MatchWs(t, p)
      [] pat[1] = "comment"   -> MatchComment(t, p)

RECURSIVE FirstMatchFrom(_, _, _)
\* The for loop of tokenize from entry i on, left at the first match
FirstMatchFrom(t, p, i) ==
    IF i > Len(TOKENS) THEN 0
    ELSE IF MatchLen(TOKENS[i][2], t, p) > 0 THEN i
    ELSE FirstMatchFrom(t, p, i + 1)

\* The for loop of tokenize: the first entry of TOKENS that matches at p
\* (0: none does).
FirstMatch(t, p) == FirstMatchFrom(t, p, 1)

\* a token whose value is the match put in lower case
TokenLowered(ty, val) == [type |-> ty, value |-> ToLower(val)]

\* (token_type, value) of line 90
Token(ty, val) == [type |-> ty, value |-> val]
\* current_token() at the end of the stream
NoneTok == Token("None", <<>>)

NoErr == [kind |-> "none"]
\* SyntaxError(f"Unexpected character at position {pos}: '{self.text[pos]}'")
LexError(p, c) == [kind |-> "lex", position |-> p, char |-> c]

-----------------------------------------------------------------------------
(* Python values.  A str is PyStr(chars), an int PyInt(n), a float the     *)
(* decimal m / 10^e with m not divisible by 10 unless e = 0, a dict the    *)
(* sequence of its <<key, value>> items in insertion order.  Fields that   *)
(* are always a str hold the characters bare.                              *)

PyNone == [t |-> "none"]
PyStr(s) == [t |-> "str", v |-> s]
PyInt(n) == [t |-> "int", n |-> n]
PyFloat(m, e) == [t |-> "float", m |-> m, e |-> e]
PyDict(d) == [t |-> "dict", items |-> d]
PyBool(b) == [t |-> "bool", b |-> b]

EmptyDict == <<>>
DictKeys(d) == {d[i][1] : i \in 1..Len(d)}
DictIndex(d, k) == CHOOSE i \in 1..Len(d) : d[i][1] = k
\* d[k] = v: a new key goes to the end, a known key keeps its place
DictSet(d, k, v) == IF k \in DictKeys(d) THEN [d EXCEPT ![DictIndex(d, k)] = <<k, v>>]
                    ELSE Append(d, <<k, v>>)
\* d.get(k, default)
DictGet(d, k, default) == IF k \in DictKeys(d) THEN d[DictIndex(d, k)][2]
                          ELSE default

DigitSeq == <<"0","1","2","3","4","5","6","7","8","9">>
DigitVal(c) == (CHOOSE i \in 1..10 : DigitSeq[i] = c) - 1

RECURSIVE NatOf(_)
NatOf(ds) == IF ds = <<>> THEN 0
             ELSE 10 * NatOf(SubSeq(ds, 1, Len(ds) - 1)) + DigitVal(ds[Len(ds)])

RECURSIVE Pow10(_)
Pow10(e) == IF e = 0 THEN 1 ELSE 10 * Pow10(e - 1)

\* int(s) for a NUMBER lexeme without a decimal point
IntOf(s) == IF s[1] = "-" THEN 0 - NatOf(Tail(s)) ELSE NatOf(s)

RECURSIVE Normalize(_, _)
Normalize(m, e) == IF e > 0 /\ m % 10 = 0 THEN Normalize(m \div 10, e - 1)
                   ELSE PyFloat(m, e)

\* float(s) for a NUMBER lexeme with a decimal point
FloatOf(s) ==
    LET neg == s[1] = "-"
        body == IF neg THEN Tail(s) ELSE s
        dot == CHOOSE k \in 1..Len(body) : body[k] = "."
        digits == SubSeq(body, 1, dot - 1) \o SubSeq(body, dot + 1, Len(body))
        m == NatOf(digits)
    IN  Normalize(IF neg THEN 0 - m ELSE m, Len(body) - dot)

RECURSIVE NatStr(_)
NatStr(n) == IF n < 10 THEN <<DigitSeq[n + 1]>>
             ELSE NatStr(n \div 10) \o <<DigitSeq[(n % 10) + 1]>>

RECURSIVE Join(_, _)
\* sep.join(parts)
Join(sep, parts) ==
    IF parts = <<>> THEN <<>>
    ELSE IF Len(parts) = 1 THEN parts[1]
    ELSE parts[1] \o sep \o Join(sep, Tail(parts))

RECURSIVE Escape(_, _)
Escape(s, q) ==
    IF s = <<>> THEN <<>>
    ELSE (CASE Head(s) = "\\" -> <<"\\", "\\">>
            [] Head(s) = "\n" -> <<"\\", "n">>
            [] Head(s) = "\t" -> <<"\\", "t">>
            [] Head(s) = "\r" -> <<"\\", "r">>
            [] Head(s) = q    -> <<"\\", q>>
            [] OTHER          -> <<Head(s)>>) \o Escape(Tail(s), q)

InSeq(c, s) == \E i \in 1..Len(s) : s[i] = c

\* repr(v) of a str, an int, a float, a bool or None
ReprScalar(v) ==
    CASE v.t = "str" ->
           LET q == IF InSeq("'", v.v) /\ ~InSeq("\"", v.v) THEN "\"" ELSE "'"
           IN  <<q>> \o Escape(v.v, q) \o <<q>>
      [] v.t = "int" ->
           IF v.n < 0 THEN <<"-">> \o NatStr(0 - v.n) ELSE NatStr(v.n)
      [] v.t = "float" ->
           LET a == IF v.m < 0 THEN 0 - v.m ELSE v.m
               frac == NatStr(a % Pow10(v.e))
               pad == [i \in 1..(v.e - Len(frac)) |-> "0"]
           IN  (IF v.m < 0 THEN <<"-">> ELSE <<>>) \o NatStr(a \div Pow10(v.e))
               \o <<".">> \o (IF v.e = 0 THEN <<"0">> ELSE pad \o frac)
      [] v.t = "bool" ->
           IF v.b THEN <<"T","r","u","e">> ELSE <<"F","a","l","s","e">>
      [] OTHER -> <<"N","o","n","e">>

\* repr(v), also of a dict (of str keys and scalar values)
Repr(v) ==
    IF v.t = "dict"
    THEN <<"{">>
         \o Join(<<",", " ">>,
                 [i \in 1..Len(v.items) |->
                    ReprScalar(PyStr(v.items[i][1])) \o <<":", " ">>
                    \o ReprScalar(v.items[i][2])])
         \o <<"}">>
    ELSE ReprScalar(v)

\* str(v), and what an f-string puts for {v}
StrOf(v) == IF v.t = "str" THEN v.v ELSE Repr(v)

RECURSIVE Str(_)
\* the characters s as one string
Str(s) == IF s = <<>> THEN "" ELSE Head(s) \o Str(Tail(s))

-----------------------------------------------------------------------------
(* Parser: current_token, advance, expect, match, skip_whitespace,         *)
(* parse_value                                                             *)

\* current_token() with the cursor at p
Cur(toks, p) == IF p < Len(toks) THEN toks[p + 1] ELSE NoneTok

\* SyntaxError(f"Expected {token_type}, got {self.current_token()}")
ExpectError(ty, tok) == [kind |-> "expect", expected |-> ty, got |-> tok]

\* an expect that steps back over the token before when it raises
ExpectRewinding(toks, p, ty) ==
    [ok  |-> Cur(toks, p).type = ty,
     tok |-> Cur(toks, p),
     pos |-> IF Cur(toks, p).type = ty THEN p + 1 ELSE IF p > 0 THEN p - 1 ELSE p,
     err |-> ExpectError(ty, Cur(toks, p))]

\* expect(ty) with the cursor at p: whether it returns, the token it saw, the
\* cursor it leaves and the error it raises otherwise
Expect(toks, p, ty) ==
    [ok  |-> Cur(toks, p).type = ty,
     tok |-> Cur(toks, p),
     pos |-> IF Cur(toks, p).type = ty THEN p + 1 ELSE p,
     err |-> ExpectError(ty, Cur(toks, p))]

\* a straight-line run of expect calls: the first that raises decides
Chain(es) ==
    LET bad == {i \in 1..Len(es) : ~es[i].ok}
    IN  IF bad = {} THEN [ok |-> TRUE, pos |-> es[Len(es)].pos]
        ELSE [ok |-> FALSE, pos |-> es[Min(bad)].pos, err |-> es[Min(bad)].err]

\* skip_whitespace() with the cursor at p: the cursor it leaves
SkipWhitespace(toks, p) ==
    LET stop == {k \in (p + 1)..Len(toks) : toks[k].type \notin {"WS", "COMMENT"}}
    IN  IF stop = {} THEN (IF p < Len(toks) THEN Len(toks) ELSE p)
        ELSE Min(stop) - 1

\* the cursor after `if current_token() and current_token()[0] == 'COMMA':
\* advance()`
SkipComma(toks, p) == IF Cur(toks, p).type = "COMMA" THEN p + 1 ELSE p

\* parse_value() with the cursor at p: the value and the cursor it leaves
ParseValue(toks, p) ==
    LET token == Cur(toks, p)
    IN  CASE token.type = "STRING" ->
               [val |-> PyStr(SubSeq(token.value, 2, Len(token.value) - 1)),
                pos |-> p + 1]
          [] token.type = "NUMBER" ->
               [val |-> IF InSeq(".", token.value) THEN FloatOf(token.value)
                        ELSE PyInt(IntOf(token.value)),
                pos |-> p + 1]
          [] token.type = "IDENT" ->
               [val |-> PyStr(token.value), pos |-> p + 1]
          [] OTHER -> [val |-> PyNone, pos |-> p]

\* an exception leaves parse(): no mapping is returned
Raise(r) ==
    /\ pc' = "error"
    /\ err' = r.err
    /\ pos' = r.pos
    /\ outcomes' = Append(outcomes, [ok |-> FALSE, err |-> r.err])

-----------------------------------------------------------------------------
(* CodeGenerator.  The program text is a sequence of lines; a line is the  *)
(* sequence of the pieces its string literal or f-string is made of (the   *)
(* literal stretches and the interpolated values, in order).               *)

W_CSV == <<"C","S","V">>
W_source1 == <<"s","o","u","r","c","e","1">>
W_loop == <<"l","o","o","p">>
W_XML == <<"X","M","L">>
W_DB == <<"D","B">>
W_EDI == <<"E","D","I">>
W_JSON == <<"J","S","O","N">>
W_has_header == <<"h","a","s","_","h","e","a","d","e","r">>
W_true == <<"t","r","u","e">>
W_type == <<"t","y","p","e">>
W_sqlite == <<"s","q","l","i","t","e">>
W_connection_string == <<"c","o","n","n","e","c","t","i","o","n","_","s","t","r","i","n","g">>
W_query == <<"q","u","e","r","y">>
W_version == <<"v","e","r","s","i","o","n">>
W_X12 == <<"X","1","2">>
W_root_element == <<"r","o","o","t","_","e","l","e","m","e","n","t">>
W_Item == <<"I","t","e","m">>
W_Root == <<"R","o","o","t">>
W_table == <<"t","a","b","l","e">>
W_output == <<"o","u","t","p","u","t">>
W_integer == <<"i","n","t","e","g","e","r">>
W_int == <<"i","n","t">>
W_string == <<"s","t","r","i","n","g">>
W_str == <<"s","t","r">>
W_decimal == <<"d","e","c","i","m","a","l">>
W_float == <<"f","l","o","a","t">>
W_boolean == <<"b","o","o","l","e","a","n">>
W_bool == <<"b","o","o","l">>
W_select_table == <<"S","E","L","E","C","T"," ","*"," ","F","R","O","M"," ","t","a","b","l","e">>
W_select_source1 == <<"S","E","L","E","C","T"," ","*"," ","F","R","O","M"," ","s","o","u","r","c","e","1">>

\* _generate_transform_functions, lines 456-516
TransformFunctions == <<
    <<"">>,
    <<"# Transformation Functions">>,
    <<"def transform_value(value, func_name: str, *args):">>,
    <<"    \"\"\"Apply transformation function to value.\"\"\"">>,
    <<"    if value is None:">>,
    <<"        return None">>,
    <<"    try:">>,
    <<"        if func_name == \"upper\":">>,
    <<"            return str(value).upper()">>,
    <<"        elif func_name == \"lower\":">>,
    <<"            return str(value).lower()">>,
    <<"        elif func_name == \"trim\":">>,
    <<"            return str(value).strip()">>,
    <<"        elif func_name == \"int\":">>,
    <<"            return int(value)">>,
    <<"        elif func_name == \"float\":">>,
    <<"            return float(value)">>,
    <<"        elif func_name == \"str\":">>,
    <<"            return str(value)">>,
    <<"        elif func_name == \"format_date\":">>,
    <<"            if args:">>,
    <<"                return format_date_func(value, args[0])">>,
    <<"        elif func_name == \"format_number\":">>,
    <<"            if args:">>,
    <<"                return format_number_func(value, args[0])">>,
    <<"        elif func_name == \"substring\":">>,
    <<"            if args:">>,
    <<"                start = int(args[0]) if len(args) > 0 else 0">>,
    <<"                end = int(args[1]) if len(args) > 1 else None">>,
    <<"                return str(value)[start:end]">>,
    <<"    except Exception:">>,
    <<"        pass">>,
    <<"    return value">>,
    <<"">>,
    <<"# Date formatter">>,
    <<"def format_date_func(value, fmt):">>,
    <<"    \"\"\"Format date value according to format string.\"\"\"">>,
    <<"    import datetime">>,
    <<"    if isinstance(value, str):">>,
    <<"        for fmt_str in [\"%Y-%m-%d\", \"%d/%m/%Y\", \"%m/%d/%Y\"]:">>,
    <<"            try:">>,
    <<"                dt = datetime.datetime.strptime(value, fmt_str)">>,
    <<"                return dt.strftime(fmt.replace(\"YYYY\", \"%Y\").replace(\"MM\", \"%m\").replace(\"DD\", \"%d\"))">>,
    <<"            except ValueError:">>,
    <<"                continue">>,
    <<"    return value">>,
    <<"">>,
    <<"# Number formatter">>,
    <<"def format_number_func(value, fmt):">>,
    <<"    \"\"\"Format number according to format string.\"\"\"">>,
    <<"    try:">>,
    <<"        num = float(value)">>,
    <<"        if fmt == \"#,##0.00\":">>,
    <<"            return f\"{num:,.2f}\"">>,
    <<"        elif fmt == \"999999.99\":">>,
    <<"            return f\"{num:08.2f}\"">>,
    <<"    except (ValueError, TypeError):">>,
    <<"        pass">>,
    <<"    return value">> >>

\* _generate_source_handlers, lines 521-533
SourceHandlerXML == <<
    <<"">>,
    <<"# XML Source Handler">>,
    <<"def read_source(file_path: str, root_element: Optional[str] = None) -> List[Dict]:">>,
    <<"    \"\"\"Read data from XML file.\"\"\"">>,
    <<"    tree = ET.parse(file_path)">>,
    <<"    root = tree.getroot()">>,
    <<"    items = []">>,
    <<"    for elem in root.iter(root_element) if root_element else [root]:">>,
    <<"        item = {child.tag: child.text for child in elem}">>,
    <<"        items.append(item)">>,
    <<"    return items">> >>

\* _generate_source_handlers, lines 535-554
SourceHandlerCSV == <<
    <<"">>,
    <<"# CSV Source Handler">>,
    <<"def read_source(file_path: str, has_header: bool = True) -> List[Dict]:">>,
    <<"    \"\"\"Read data from CSV file.\"\"\"">>,
    <<"    items = []">>,
    <<"    with open(file_path, \"r\", newline=\"\") as f:">>,
    <<"        if has_header:">>,
    <<"            reader = csv.DictReader(f)">>,
    <<"            for row in reader:">>,
    <<"                items.append(dict(row))">>,
    <<"        else:">>,
    <<"            reader = csv.reader(f)">>,
    <<"            headers = [f\"col_{i}\" for i in range(len(next(reader)))]">>,
    <<"            f.seek(0)">>,
    <<"            reader = csv.DictReader(f, fieldnames=headers)">>,
    <<"            for row in reader:">>,
    <<"                items.append(dict(row))">>,
    <<"    return items">> >>

\* _generate_source_handlers, lines 556-571
SourceHandlerDB == <<
    <<"">>,
    <<"# Database Source Handler">>,
    <<"def read_db_source(db_type: str, connection_string: str, query: str) -> List[Dict]:">>,
    <<"    \"\"\"Read data from database.\"\"\"">>,
    <<"    if db_type.lower() == \"sqlite\":">>,
    <<"        conn = sqlite3.connect(connection_string)">>,
    <<"    else:">>,
    <<"        raise NotImplementedError(f\"DB type {db_type} not implemented\")">>,
    <<"    cursor = conn.cursor()">>,
    <<"    cursor.execute(query)">>,
    <<"    columns = [desc[0] for desc in cursor.description]">>,
    <<"    items = [dict(zip(columns, row)) for row in cursor.fetchall()]">>,
    <<"    conn.close()">>,
    <<"    return items">> >>

\* _generate_source_handlers, lines 573-587
SourceHandlerEDI == <<
    <<"">>,
    <<"# EDI Source Handler">>,
    <<"def read_edi_source(file_path: str, delimiter: str = \"~\") -> List[Dict]:">>,
    <<"    \"\"\"Read data from EDI file.\"\"\"">>,
    <<"    with open(file_path, \"r\") as f:">>,
    <<"        content = f.read()">>,
    <<"    items = []">>,
    <<"    segments = content.strip().split(delimiter)">>,
    <<"    for segment in segments:">>,
    <<"        if segment.strip():">>,
    <<"            parts = segment.split(\"+\")">>,
    <<"            items.append({\"segment\": parts[0], \"data\": parts})">>,
    <<"    return items">> >>

\* _generate_source_handlers, lines 589-594
SourceHandlerGeneric == <<
    <<"">>,
    <<"# Generic Source Handler">>,
    <<"def read_source(file_path: str) -> List[Dict]:">>,
    <<"    return []">> >>

\* _generate_target_handlers, lines 599-611
TargetHandlerXML == <<
    <<"">>,
    <<"# XML Target Handler">>,
    <<"def write_target(items: List[Dict], output_path: str, root_element: str = \"Root\"):">>,
    <<"    \"\"\"Write data to XML file.\"\"\"">>,
    <<"    root = ET.Element(root_element)">>,
    <<"    for item in items:">>,
    <<"        elem = ET.SubElement(root, \"Item\")">>,
    <<"        for key, value in item.items():">>,
    <<"            child = ET.SubElement(elem, key)">>,
    <<"            child.text = str(value) if value else \"\"">>,
    <<"    ET.ElementTree(root).write(output_path, encoding=\"utf-8\", xml_declaration=True)">> >>

\* _generate_target_handlers, lines 613-626
TargetHandlerCSV == <<
    <<"">>,
    <<"# CSV Target Handler">>,
    <<"def write_target(items: List[Dict], output_path: str):">>,
    <<"    \"\"\"Write data to CSV file.\"\"\"">>,
    <<"    if not items:">>,
    <<"        return">>,
    <<"    fieldnames = list(items[0].keys())">>,
    <<"    with open(output_path, \"w\", newline=\"\") as f:">>,
    <<"        writer = csv.DictWriter(f, fieldnames=fieldnames)">>,
    <<"        writer.writeheader()">>,
    <<"        for item in items:">>,
    <<"            writer.writerow(item)">> >>

\* _generate_target_handlers, lines 628-646
TargetHandlerDB == <<
    <<"">>,
    <<"# Database Target Handler">>,
    <<"def write_db_target(items: List[Dict], db_type: str, connection_string: str, table: str):">>,
    <<"    \"\"\"Write data to database.\"\"\"">>,
    <<"    if db_type.lower() == \"sqlite\":">>,
    <<"        conn = sqlite3.connect(connection_string)">>,
    <<"    else:">>,
    <<"        raise NotImplementedError(f\"DB type {db_type} not implemented\")">>,
    <<"    cursor = conn.cursor()">>,
    <<"    if items:">>,
    <<"        cols = list(items[0].keys())">>,
    <<"        placeholders = \", \".join([\"?\" for _ in cols])">>,
    <<"        for item in items:">>,
    <<"            values = [str(item.get(c)) if item.get(c) is not None else None for c in cols]">>,
    <<"            cursor.execute(f\"INSERT INTO {table} ({\", \".join(cols)}) VALUES ({placeholders})\", values)">>,
    <<"    conn.commit()">>,
    <<"    conn.close()">> >>

\* _generate_target_handlers, lines 648-659
TargetHandlerEDI == <<
    <<"">>,
    <<"# EDI Target Handler">>,
    <<"def write_target(items: List[Dict], output_path: str, delimiter: str = \"~\"):">>,
    <<"    \"\"\"Write data to EDI file.\"\"\"">>,
    <<"    lines = []">>,
    <<"    for item in items:">>,
    <<"        segment = \"+\".join(str(v) if v else \"\" for v in item.values())">>,
    <<"        lines.append(segment)">>,
    <<"    with open(output_path, \"w\") as f:">>,
    <<"        f.write(delimiter.join(lines))">> >>

\* _generate_target_handlers, lines 661-668
TargetHandlerJSON == <<
    <<"">>,
    <<"# JSON Target Handler">>,
    <<"def write_target(items: List[Dict], output_path: str):">>,
    <<"    \"\"\"Write data to JSON file.\"\"\"">>,
    <<"    with open(output_path, \"w\") as f:">>,
    <<"        json.dump(items, f, indent=2)">> >>

\* _generate_target_handlers, lines 670-675
TargetHandlerGeneric == <<
    <<"">>,
    <<"# Generic Target Handler">>,
    <<"def write_target(items: List[Dict], output_path: str):">>,
    <<"    pass">> >>

\* _generate_component_db_setup, lines 679-685
ComponentDbSetup == <<
    <<"">>,
    <<"    # --- Component Preparation (In-Memory DB) ---">>,
    <<"    import sqlite3">>,
    <<"    conn = sqlite3.connect(\":memory:\")">>,
    <<"    cursor = conn.cursor()">> >>

\* _generate_source_handlers(source_type), lines 518-594
GenerateSourceHandlers(source_type) ==
    CASE source_type = W_XML -> SourceHandlerXML
      [] source_type = W_CSV -> SourceHandlerCSV
      [] source_type = W_DB  -> SourceHandlerDB
      [] source_type = W_EDI -> SourceHandlerEDI
      [] OTHER               -> SourceHandlerGeneric

\* _generate_target_handlers(target_type), lines 596-675
GenerateTargetHandlers(target_type) ==
    CASE target_type = W_XML  -> TargetHandlerXML
      [] target_type = W_CSV  -> TargetHandlerCSV
      [] target_type = W_DB   -> TargetHandlerDB
      [] target_type = W_EDI  -> TargetHandlerEDI
      [] target_type = W_JSON -> TargetHandlerJSON
      [] OTHER                -> TargetHandlerGeneric

\* rule.get(field)
RuleGet(r, field) == IF field \in DOMAIN r THEN r[field] ELSE PyNone
\* src.get('alias', 'source1')
AliasOf(src) == IF "alias" \in DOMAIN src THEN src.alias ELSE W_source1

\* whether a Python value is true in a condition
Truthy(v) ==
    CASE v.t = "none"  -> FALSE
      [] v.t = "str"   -> v.v # <<>>
      [] v.t = "int"   -> v.n # 0
      [] v.t = "float" -> v.m # 0
      [] v.t = "dict"  -> v.items # <<>>
      [] v.t = "bool"  -> v.b

\* lines 858-867
TypeMap == << <<W_integer, "int">>, <<W_int, "int">>, <<W_string, "str">>,
              <<W_str, "str">>, <<W_decimal, "float">>, <<W_float, "float">>,
              <<W_boolean, "bool">>, <<W_bool, "bool">> >>

\* s.split('(')[0]
BeforeParen(s) ==
    LET at == {k \in 1..Len(s) : s[k] = "("}
    IN  IF at = {} THEN s ELSE SubSeq(s, 1, Min(at) - 1)

Spaces(n) == Str([i \in 1..n |-> " "])

\* the pieces of a value_expr that coerces before it transforms
ValueExprCoerceFirst(r) ==
    LET source_var == IF r.source_field # <<>>
                      THEN <<"source_item.get(\"", Str(r.source_field), "\")">>
                      ELSE <<"None">>
        default_value == RuleGet(r, "default_value")
        e1 == IF default_value # PyNone
              THEN source_var \o <<" if ">> \o source_var
                   \o <<" is not None else ", Str(Repr(default_value))>>
              ELSE source_var
        data_type == RuleGet(r, "data_type")
        python_type == DictGet(TypeMap, ToLower(data_type.v), Str(data_type.v))
        e2 == IF Truthy(data_type)
              THEN <<python_type, "(">> \o e1 \o <<") if ">> \o e1
                   \o <<" is not None else None">>
              ELSE e1
        transform == RuleGet(r, "transform")
        func_name == BeforeParen(transform.v)
        args_str == SubSeq(transform.v, Len(func_name) + 2, Len(transform.v) - 1)
    IN  IF Truthy(transform)
        THEN <<"transform_value(">> \o e2
             \o <<", \"", Str(func_name), "\", ", Str(args_str), ")">>
        ELSE e2

\* lines 842-869: the pieces of value_expr
ValueExpr(r) ==
    LET source_var == IF r.source_field # <<>>
                      THEN <<"source_item.get(\"", Str(r.source_field), "\")">>
                      ELSE <<"None">>
        default_value == RuleGet(r, "default_value")
        e1 == IF default_value # PyNone
              THEN source_var \o <<" if ">> \o source_var
                   \o <<" is not None else ", Str(Repr(default_value))>>
              ELSE source_var
        transform == RuleGet(r, "transform")
        func_name == BeforeParen(transform.v)
        args_str == SubSeq(transform.v, Len(func_name) + 2, Len(transform.v) - 1)
        e2 == IF Truthy(transform)
              THEN <<"transform_value(">> \o e1
                   \o <<", \"", Str(func_name), "\", ", Str(args_str), ")">>
              ELSE e1
        data_type == RuleGet(r, "data_type")
        python_type == DictGet(TypeMap, ToLower(data_type.v), Str(data_type.v))
    IN  IF Truthy(data_type)
        THEN <<python_type, "(">> \o e2 \o <<") if ">> \o e2
             \o <<" is not None else None">>
        ELSE e2

\* _generate_rule_processing(rule, indent), lines 835-881
GenerateRuleProcessing(r, indent) ==
    LET condition == RuleGet(r, "condition")
    IN  IF r.target_field = <<>> THEN <<>>
        ELSE IF Truthy(condition)
        THEN << <<Spaces(indent), "if ", Str(condition.v), ":">>,
                <<Spaces(indent), "    output_item[\"", Str(r.target_field),
                  "\"] = ">> \o ValueExpr(r) >>
        ELSE << <<Spaces(indent), "output_item[\"", Str(r.target_field),
                  "\"] = ">> \o ValueExpr(r) >>

RECURSIVE Flatten(_)
\* lines.extend(...) over a sequence of line lists
Flatten(ls) == IF ls = <<>> THEN <<>> ELSE Head(ls) \o Flatten(Tail(ls))

RECURSIVE EscapeQuery(_)
\* query.replace('\\', '\\\\').replace('"', '\\"')
EscapeQuery(s) ==
    IF s = <<>> THEN <<>>
    ELSE (CASE Head(s) = "\\" -> <<"\\", "\\">>
            [] Head(s) = "\"" -> <<"\\", "\"">>
            [] OTHER          -> <<Head(s)>>) \o EscapeQuery(Tail(s))

\* str(v).capitalize()
Capitalize(s) == IF s = <<>> THEN <<>>
                 ELSE <<ToUpperChar(s[1])>> \o ToLower(Tail(s))

\* whether a Python value has the str method replace (else: AttributeError)
IsStr(v) == v.t = "str"

\* lines 707-734: the lines that read one source
ReadSourceLines(src) ==
    LET source_type == ToUpper(src.type)
        source_config == src.config
        alias == Str(AliasOf(src))
        head == << <<"    input_for_", alias, " = inputs.get(\"", alias, "\")">>,
                   <<"    if not input_for_", alias, ":">>,
                   <<"        pass # handle missing input gracefully if needed">>,
                   <<"    else:">> >>
        has_header == Capitalize(StrOf(DictGet(source_config, W_has_header,
                                               PyStr(W_true))))
        db_type == DictGet(source_config, W_type, PyStr(W_sqlite))
        conn_str == DictGet(source_config, W_connection_string, PyStr(<<>>))
        query == DictGet(source_config, W_query, PyStr(W_select_table))
        version == DictGet(source_config, W_version, PyStr(W_X12))
        root_elem == DictGet(source_config, W_root_element, PyStr(W_Item))
    IN  head \o
        (CASE source_type = W_CSV ->
                << <<"        sources_data[\"", alias, "\"] = read_source(input_for_",
                     alias, ", has_header=", Str(has_header), ")">> >>
           [] source_type = W_DB ->
                << <<"        sources_data[\"", alias, "\"] = read_db_source(\"",
                     Str(StrOf(db_type)), "\", \"", Str(StrOf(conn_str)),
                     "\", \"\"\"", Str(EscapeQuery(query.v)), "\"\"\")">> >>
           [] source_type = W_EDI ->
                << <<"        sources_data[\"", alias,
                     "\"] = read_edi_source(input_for_", alias, ", delimiter=\"",
                     Str(StrOf(version)), "\")">> >>
           [] source_type = W_JSON ->
                << <<"        with open(input_for_", alias,
                     ", \"r\") as f: sources_data[\"", alias,
                     "\"] = json.load(f)">> >>
           [] OTHER ->
                << <<"        sources_data[\"", alias, "\"] = read_source(input_for_",
                     alias, ", root_element=\"", Str(StrOf(root_elem)), "\")">> >>)

\* whether reading src raises: line 724, query.replace on a value that is
\* no str
ReadSourceRaises(src) ==
    /\ ToUpper(src.type) = W_DB
    /\ ~IsStr(DictGet(src.config, W_query, PyStr(W_select_table)))

\* lines 742-755: the table of one source in the component's store
ComponentTableLines(src) ==
    LET alias == Str(AliasOf(src))
    IN  << <<"    if \"", alias, "\" in sources_data and sources_data[\"", alias,
             "\"]:">>,
           <<"        # Dynamically create table and insert data for alias ", alias>>,
           <<"        first_item = sources_data[\"", alias, "\"][0]">>,
           <<"        columns = list(first_item.keys())">>,
           <<"        col_defs = \", \".join([f\"{c} TEXT\" for c in columns])">>,
           <<"        cursor.execute(f\"CREATE TABLE ", alias, " ({col_defs})\")">>,
           <<"        ">>,
           <<"        placeholders = \", \".join([\"?\" for _ in columns])">>,
           <<"        insert_sql = f\"INSERT INTO ", alias,
             " ({\", \".join(columns)}) VALUES ({placeholders})\"">>,
           <<"        for item in sources_data[\"", alias, "\"]:">>,
           <<"            cursor.execute(insert_sql, [str(item.get(c)) if item.get(c) is not None else None for c in columns])">>,
           <<"        conn.commit()">> >>

\* lines 737-772: the records that drive rule application
SourceItemsLines(mapping) ==
    LET comp_query == DictGet(mapping.component.config, W_query,
                              PyStr(W_select_source1))
    IN  IF mapping.component # PyNone
        THEN ComponentDbSetup
             \o Flatten([i \in 1..Len(mapping.sources) |->
                           ComponentTableLines(mapping.sources[i])])
             \o << <<"    ">>,
                   <<"    # Execute Component query to produce final source items">>,
                   <<"    cursor.execute(\"\"\"", Str(EscapeQuery(comp_query.v)),
                     "\"\"\")">>,
                   <<"    columns = [desc[0] for desc in cursor.description]">>,
                   <<"    source_items = [dict(zip(columns, row)) for row in cursor.fetchall()]">>,
                   <<"    conn.close()">> >>
        ELSE << <<"">>,
                <<"    source_items = sources_data.get(\"",
                  Str(AliasOf(mapping.sources[1])), "\", [])">> >>

\* lines 791-805: the call of the writer
WriteTargetLines(mapping, target_type) ==
    LET target_config == mapping.target.config
        db_type == DictGet(target_config, W_type, PyStr(W_sqlite))
        conn_str == DictGet(target_config, W_connection_string, PyStr(<<>>))
        table == DictGet(target_config, W_table, PyStr(W_output))
        version == DictGet(target_config, W_version, PyStr(W_X12))
        root_elem == DictGet(target_config, W_root_element, PyStr(W_Root))
    IN  CASE target_type = W_CSV ->
               << <<"    write_target(output_items, output_path)">> >>
          [] target_type = W_DB ->
               << <<"    write_db_target(output_items, \"", Str(StrOf(db_type)),
                    "\", \"", Str(StrOf(conn_str)), "\", \"", Str(StrOf(table)),
                    "\")">> >>
          [] target_type = W_EDI ->
               << <<"    write_target(output_items, output_path, delimiter=\"",
                    Str(StrOf(version)), "\")">> >>
          [] target_type = W_JSON ->
               << <<"    write_target(output_items, output_path)">> >>
          [] OTHER ->
               << <<"    write_target(output_items, output_path, root_element=\"",
                    Str(StrOf(root_elem)), "\")">> >>

\* lines 813-831
EntryPoint == <<
    <<"">>,
    <<"if __name__ == \"__main__\":">>,
    <<"    import sys">>,
    <<"    # We map all sys.argv pairs (except last as output) intoinputs">>,
    <<"    if len(sys.argv) >= 3:">>,
    <<"        output_path = sys.argv[-1]">>,
    <<"        inputs = {}">>,
    <<"        if len(sys.argv) == 3:">>,
    <<"            inputs[\"source1\"] = sys.argv[1]">>,
    <<"        else:">>,
    <<"            # Format: alias1 path1 alias2 path2 output">>,
    <<"            for i in range(1, len(sys.argv)-1, 2):">>,
    <<"                inputs[sys.argv[i]] = sys.argv[i+1]">>,
    <<"        result = execute_mapping(inputs, output_path)">>,
    <<"        print(f\"Mapping complete: {len(result)} items\")">>,
    <<"    else:">>,
    <<"        print(\"Usage: python generated.py [alias1 input1 ...] <output>\")">> >>

\* lines 784-785: the rule-application code
RuleLines(mapping) ==
    Flatten([i \in 1..Len(mapping.rules) |->
               GenerateRuleProcessing(mapping.rules[i], 8)])

\* _generate_main_function(target_type), lines 687-833, when it returns
GenerateMainFunction(mapping, target_type) ==
    << <<"">>,
       <<"# Main Mapping Function">>,
       <<"def execute_mapping(inputs: dict, output_path: str) -> List[Dict]:">>,
       <<"    \"\"\"Execute the mapping and return transformed data.">>,
       <<"       inputs is a dict of { alias: file_path }">>,
       <<"    \"\"\"">>,
       <<"    sources_data = {}">> >>
    \o Flatten([i \in 1..Len(mapping.sources) |-> ReadSourceLines(mapping.sources[i])])
    \o SourceItemsLines(mapping)
    \o << <<"">>,
          <<"    # Transform items">>,
          <<"    output_items = []">>,
          <<"    for source_item in source_items:">>,
          <<"        output_item = {}">> >>
    \o RuleLines(mapping)
    \o << <<"        output_items.append(output_item)">>,
          <<"">> >>
    \o WriteTargetLines(mapping, target_type)
    \o << <<"">>,
          <<"    return output_items">> >>
    \o EntryPoint

\* The exception _generate_main_function raises, if any:
\* line 692, self.mapping.get('component', {}) is None when the key is there
\* with the value None, and None has no get; line 724, a DB source's query
\* that is no str; line 759, a component query that is no str.
MainFunctionError(mapping) ==
    IF mapping.component = PyNone
    THEN [kind |-> "AttributeError", line |-> 692]
    ELSE IF \E i \in 1..Len(mapping.sources) : ReadSourceRaises(mapping.sources[i])
    THEN [kind |-> "AttributeError", line |-> 724]
    ELSE IF ~IsStr(DictGet(mapping.component.config, W_query,
                           PyStr(W_select_source1)))
    THEN [kind |-> "AttributeError", line |-> 759]
    ELSE NoErr

\* lines 406-434: sorted(set(imports))
ImportLines(mapping) ==
    LET source_types == {ToUpper(mapping.sources[i].type) :
                           i \in 1..Len(mapping.sources)}
        target_type == ToUpper(mapping.target.type)
        types == source_types \cup {target_type}
        imports ==
            {"import csv", "import json", "from typing import Dict, List, Optional"}
            \cup (IF mapping.component # PyNone \/ W_DB \in types
                  THEN {"import sqlite3"} ELSE {})
            \cup (IF W_XML \in types THEN {"import xml.etree.ElementTree as ET"}
                  ELSE {})
            \cup (IF W_EDI \in types THEN {"import re"} ELSE {})
        sorted == <<"from typing import Dict, List, Optional", "import csv",
                    "import json", "import re", "import sqlite3",
                    "import xml.etree.ElementTree as ET">>
    IN  [i \in 1..Len(SelectSeq(sorted, LAMBDA x : x \in imports)) |->
           <<SelectSeq(sorted, LAMBDA x : x \in imports)[i]>>]

\* line 442: the set of the source types in use
UsedSrcTypes(mapping) ==
    {ToUpper(mapping.sources[i].type) : i \in 1..Len(mapping.sources)}

\* the orders in which a set can be iterated
Orders(S) == {o \in [1..Cardinality(S) -> S] : \A x \in S : \E i \in DOMAIN o : o[i] = x}

\* generate(), lines 396-452, with the set of line 442 iterated in the order
\* order: the lines of the program, or the exception raised
Generate(mapping, order) ==
    LET target_type == ToUpper(mapping.target.type)
    IN  IF MainFunctionError(mapping) # NoErr
        THEN [ok |-> FALSE, err |-> MainFunctionError(mapping)]
        ELSE [ok |-> TRUE,
              lines |->
                << <<"#!/usr/bin/env python3">>,
                   <<"# Data Mapping: ", Str(mapping.name)>>,
                   <<"# Auto-generated by DML Mapper">> >>
                \o ImportLines(mapping)
                \o << <<"">> >>
                \o TransformFunctions
                \o Flatten([i \in 1..Len(order) |-> GenerateSourceHandlers(order[i])])
                \o GenerateTargetHandlers(target_type)
                \o GenerateMainFunction(mapping, target_type)]

-----------------------------------------------------------------------------
(* The routines of the generated program, lines 459-515 of the generator:  *)
(* what transform_value, format_date_func and format_number_func do when   *)
(* the program runs.  A call ends in a return or in an exception; a block  *)
(* of statements can also end without either.                              *)

Returned(v) == [k |-> "return", v |-> v]
Raised(exc) == [k |-> "raise", exc |-> exc]
FellThrough == [k |-> "fall"]

\* str.strip()
Strip(s) ==
    LET keep == {k \in 1..Len(s) : s[k] \notin SpaceChar}
    IN  IF keep = {} THEN <<>> ELSE SubSeq(s, Min(keep), Max(keep))

IsDigits(s) == s # <<>> /\ \A k \in 1..Len(s) : s[k] \in Digit
\* a numeral without its sign, and the sign
Unsigned(s) == IF s # <<>> /\ s[1] \in {"+", "-"} THEN Tail(s) ELSE s
SignOf(s) == IF s # <<>> /\ s[1] = "-" THEN 0 - 1 ELSE 1

\* int(v): a str is stripped and read as a signed decimal numeral (ValueError
\* when it is none), a float is truncated towards zero
IntCall(v) ==
    CASE v.t = "int"   -> Returned(v)
      [] v.t = "bool"  -> Returned(PyInt(IF v.b THEN 1 ELSE 0))
      [] v.t = "float" -> Returned(PyInt(IF v.m < 0
                                         THEN 0 - ((0 - v.m) \div Pow10(v.e))
                                         ELSE v.m \div Pow10(v.e)))
      [] v.t = "str"   ->
           LET s == Strip(v.v)
           IN  IF IsDigits(Unsigned(s))
               THEN Returned(PyInt(SignOf(s) * NatOf(Unsigned(s))))
               ELSE Raised("ValueError")
      [] OTHER         -> Raised("TypeError")

\* float(v): a str is stripped and read as a signed decimal numeral with or
\* without a point (ValueError when it is none)
FloatCall(v) ==
    CASE v.t = "float" -> Returned(v)
      [] v.t = "int"   -> Returned(PyFloat(v.n, 0))
      [] v.t = "bool"  -> Returned(PyFloat(IF v.b THEN 1 ELSE 0, 0))
      [] v.t = "str"   ->
           LET s == Strip(v.v)
               body == Unsigned(s)
               dots == {k \in 1..Len(body) : body[k] = "."}
               dot == IF dots = {} THEN Len(body) + 1 ELSE Min(dots)
               whole == SubSeq(body, 1, dot - 1)
               frac == SubSeq(body, dot + 1, Len(body))
           IN  IF /\ Cardinality(dots) <= 1
                  /\ whole \o frac # <<>>
                  /\ \A k \in 1..Len(whole \o frac) : (whole \o frac)[k] \in Digit
               THEN Returned(Normalize(SignOf(s) * NatOf(whole \o frac), Len(frac)))
               ELSE Raised("ValueError")
      [] OTHER         -> Raised("TypeError")

\* s[start:end] of a str, end None for the end of s
Slice(s, start, end) ==
    LET n == Len(s)
        Clamp(i) == IF i < 0 THEN (IF i + n < 0 THEN 0 ELSE i + n)
                    ELSE (IF i > n THEN n ELSE i)
        lo == Clamp(start.n)
        hi == IF end = PyNone THEN n ELSE Clamp(end.n)
    IN  SubSeq(s, lo + 1, hi)

RECURSIVE Replace(_, _, _)
\* str.replace(old, new), old not empty
Replace(s, old, new) ==
    IF Len(s) < Len(old) THEN s
    ELSE IF SubSeq(s, 1, Len(old)) = old
    THEN new \o Replace(SubSeq(s, Len(old) + 1, Len(s)), old, new)
    ELSE <<Head(s)>> \o Replace(Tail(s), old, new)

RECURSIVE SplitOn(_, _)
\* str.split(sep) for a separator of one character
SplitOn(s, sep) ==
    LET at == {k \in 1..Len(s) : s[k] = sep}
    IN  IF at = {} THEN <<s>>
        ELSE <<SubSeq(s, 1, Min(at) - 1)>>
             \o SplitOn(SubSeq(s, Min(at) + 1, Len(s)), sep)

\* n in decimal, padded with zeros on the left to width w
Padded(n, w) == [i \in 1..(w - Len(NatStr(n))) |-> "0"] \o NatStr(n)

DaysIn(y, m) ==
    IF m = 2
    THEN (IF y % 4 = 0 /\ (y % 100 # 0 \/ y % 400 = 0) THEN 29 ELSE 28)
    ELSE IF m \in {4, 6, 9, 11} THEN 30 ELSE 31

\* datetime.datetime.strptime(s, fmt_str) for the three patterns of line 496,
\* given by the separator and the places of year, month and day: %Y is four
\* digits, %m and %d one or two, and the date has to exist
Strptime(s, sep, iy, im, id) ==
    LET parts == SplitOn(s, sep)
        y == NatOf(parts[iy])
        m == NatOf(parts[im])
        d == NatOf(parts[id])
    IN  IF /\ Len(parts) = 3
           /\ \A k \in 1..3 : IsDigits(parts[k])
           /\ Len(parts[iy]) = 4
           /\ Len(parts[im]) <= 2 /\ Len(parts[id]) <= 2
           /\ y >= 1
           /\ m \in 1..12
           /\ d \in 1..DaysIn(y, m)
        THEN Returned([y |-> y, m |-> m, d |-> d])
        ELSE Raised("ValueError")

RECURSIVE Strftime(_, _)
\* dt.strftime(fmt) for the directives %Y, %m, %d and %%
Strftime(fmt, dt) ==
    IF fmt = <<>> THEN <<>>
    ELSE IF Head(fmt) = "%" /\ Len(fmt) >= 2 /\ fmt[2] \in {"Y", "m", "d", "%"}
    THEN (CASE fmt[2] = "Y" -> Padded(dt.y, 4)
            [] fmt[2] = "m" -> Padded(dt.m, 2)
            [] fmt[2] = "d" -> Padded(dt.d, 2)
            [] OTHER        -> <<"%">>)
         \o Strftime(SubSeq(fmt, 3, Len(fmt)), dt)
    ELSE <<Head(fmt)>> \o Strftime(Tail(fmt), dt)

\* format_date_func(value, fmt), lines 492-502
FormatDateFunc(value, fmt) ==
    LET tries == <<Strptime(value.v, "-", 1, 2, 3),
                   Strptime(value.v, "/", 3, 2, 1),
                   Strptime(value.v, "/", 3, 1, 2)>>
        hits == {k \in 1..3 : tries[k].k = "return"}
        pattern == Replace(Replace(Replace(fmt.v, <<"Y","Y","Y","Y">>, <<"%","Y">>),
                                   <<"M","M">>, <<"%","m">>),
                           <<"D","D">>, <<"%","d">>)
    IN  IF value.t # "str" \/ hits = {} THEN Returned(value)
        ELSE IF fmt.t # "str" THEN Raised("AttributeError")
        ELSE Returned(PyStr(Strftime(pattern, tries[Min(hits)].v)))

RECURSIVE Grouped(_)
\* the digits of n in groups of three, a comma between the groups
Grouped(n) == IF n < 1000 THEN NatStr(n)
              ELSE Grouped(n \div 1000) \o <<",">> \o Padded(n % 1000, 3)

\* the hundredths of |num|, rounded half to even
Hundredths(num) ==
    LET a == IF num.m < 0 THEN 0 - num.m ELSE num.m
        q == a \div Pow10(num.e - 2)
        r == a % Pow10(num.e - 2)
    IN  IF num.e <= 2 THEN a * Pow10(2 - num.e)
        ELSE IF 2 * r > Pow10(num.e - 2) \/ (2 * r = Pow10(num.e - 2) /\ q % 2 = 1)
        THEN q + 1 ELSE q

\* f"{num:,.2f}"
FormatGrouped(num) ==
    (IF num.m < 0 THEN <<"-">> ELSE <<>>)
    \o Grouped(Hundredths(num) \div 100) \o <<".">> \o Padded(Hundredths(num) % 100, 2)

\* f"{num:08.2f}"
FormatPadded(num) ==
    LET sign == IF num.m < 0 THEN <<"-">> ELSE <<>>
        body == NatStr(Hundredths(num) \div 100) \o <<".">>
                \o Padded(Hundredths(num) % 100, 2)
    IN  sign \o [i \in 1..(8 - Len(sign) - Len(body)) |-> "0"] \o body

\* format_number_func(value, fmt), lines 505-515
FormatNumberFunc(value, fmt) ==
    LET num == FloatCall(value)
    IN  IF num.k = "raise" THEN Returned(value)
        ELSE IF fmt = PyStr(<<"#",",","#","#","0",".","0","0">>)
        THEN Returned(PyStr(FormatGrouped(num.v)))
        ELSE IF fmt = PyStr(<<"9","9","9","9","9","9",".","9","9">>)
        THEN Returned(PyStr(FormatPadded(num.v)))
        ELSE Returned(value)

\* lines 464-486: the statements inside the try of transform_value
TransformBody(value, func_name, args) ==
    CASE func_name = "upper" -> Returned(PyStr(ToUpper(StrOf(value))))
      [] func_name = "lower" -> Returned(PyStr(ToLower(StrOf(value))))
      [] func_name = "trim"  -> Returned(PyStr(Strip(StrOf(value))))
      [] func_name = "int"   -> IntCall(value)
      [] func_name = "float" -> FloatCall(value)
      [] func_name = "str"   -> Returned(PyStr(StrOf(value)))
      [] func_name = "format_date" ->
           IF args # <<>> THEN FormatDateFunc(value, args[1]) ELSE FellThrough
      [] func_name = "format_number" ->
           IF args # <<>> THEN FormatNumberFunc(value, args[1]) ELSE FellThrough
      [] func_name = "substring" ->
           IF args = <<>> THEN FellThrough
           ELSE LET start == IntCall(args[1])
                    end == IF Len(args) > 1 THEN IntCall(args[2])
                           ELSE Returned(PyNone)
                IN  IF start.k = "raise" THEN start
                    ELSE IF end.k = "raise" THEN end
                    ELSE Returned(PyStr(Slice(StrOf(value), start.v, end.v)))
      [] OTHER -> FellThrough

\* lines 487-489: what the try block returned, or the value itself when
\* the block raised or ended without a return
OrPassthrough(body, value) == IF body.k = "return" THEN body ELSE Returned(value)

\* transform_value without its try: an exception of the body leaves it
TransformValueNoTry(value, func_name, args) ==
    IF value = PyNone THEN Returned(PyNone)
    ELSE IF TransformBody(value, func_name, args).k = "fall" THEN Returned(value)
    ELSE TransformBody(value, func_name, args)

\* transform_value(value, func_name, *args), lines 459-489
TransformValue(value, func_name, args) ==
    IF value = PyNone THEN Returned(PyNone)
    ELSE OrPassthrough(TransformBody(value, func_name, args), value)

-----------------------------------------------------------------------------
(* The rule-application code of the generated program, lines 842-879 of    *)
(* the generator, as Python runs it: the literals, the guard conditions    *)
(* and the value expressions.  A piece of program text that the generator  *)
(* took from the definition is looked up in the spellings of the           *)
(* definition to get its characters.                                       *)

NotPython == [k |-> "syntax"]

\* the characters of the piece of text seg
Spelling(seg, spellings) == CHOOSE c \in spellings : Str(c) = seg

RECURSIVE Unescape(_)
\* the characters a quoted literal stands for
Unescape(s) ==
    IF s = <<>> THEN <<>>
    ELSE IF Head(s) = "\\" /\ Len(s) >= 2
    THEN (CASE s[2] = "n" -> <<"\n">>
            [] s[2] = "t" -> <<"\t">>
            [] s[2] = "r" -> <<"\r">>
            [] OTHER      -> <<s[2]>>) \o Unescape(SubSeq(s, 3, Len(s)))
    ELSE <<Head(s)>> \o Unescape(Tail(s))

\* the value of a Python literal: a quoted str, None, True, False, a
\* numeral
PyLiteral(cs) ==
    IF cs # <<>> /\ cs[1] \in {"'", "\""}
    THEN PyStr(Unescape(SubSeq(cs, 2, Len(cs) - 1)))
    ELSE IF cs = <<"N","o","n","e">> THEN PyNone
    ELSE IF cs = <<"T","r","u","e">> THEN PyBool(TRUE)
    ELSE IF cs = <<"F","a","l","s","e">> THEN PyBool(FALSE)
    ELSE IF InSeq(".", cs) THEN FloatOf(cs)
    ELSE PyInt(IntOf(cs))

\* the end of the literal that starts cs: the closing quote of a quoted
\* one, the character before the next comma of another
LiteralEnd(cs) ==
    LET closing == {k \in 2..Len(cs) : cs[k] = cs[1] /\ cs[k - 1] # "\\"}
        commas == {k \in 1..Len(cs) : cs[k] = ","}
    IN  IF cs[1] \in {"'", "\""}
        THEN (IF closing = {} THEN Len(cs) ELSE Min(closing))
        ELSE (IF commas = {} THEN Len(cs) ELSE Min(commas) - 1)

RECURSIVE PyArgs(_)
\* the values of the literals of an argument list, separated by ", "
PyArgs(cs) ==
    IF cs = <<>> THEN <<>>
    ELSE <<PyLiteral(SubSeq(cs, 1, LiteralEnd(cs)))>>
         \o PyArgs(SubSeq(cs, LiteralEnd(cs) + 3, Len(cs)))

\* the words Python reserves, as far as DML words can spell them
PyKeywords == { <<"i","f">>, <<"e","l","s","e">>, <<"a","s">>, <<"i","n">>,
                <<"i","s">>, <<"o","r">>, <<"a","n","d">>, <<"n","o","t">>,
                <<"f","o","r">> }

IsName(w) == w # <<>> /\ w[1] \in Letter \cup {"_"}
             /\ (\A k \in 1..Len(w) : w[k] \in WordChar) /\ w \notin PyKeywords
IsNumeral(w) == IsDigits(w) /\ (Len(w) = 1 \/ w[1] # "0")
IsComparison(w) == w \in { <<">">>, <<"<">> }

\* A guard condition, the token texts joined by blanks: it is Python when
\* names and numerals alternate with comparison operators.  The names of
\* fields are bound to nothing in execute_mapping: reading one raises
\* NameError.  The operands are read from left to right.
EvalCondition(cs) ==
    LET words == SplitOn(cs, " ")
        n == Len(words)
        names == {k \in 1..n : k % 2 = 1 /\ IsName(words[k])}
        Holds(k) == IF words[k] = <<">">>
                    THEN NatOf(words[k - 1]) > NatOf(words[k + 1])
                    ELSE NatOf(words[k - 1]) < NatOf(words[k + 1])
    IN  IF ~(/\ n % 2 = 1
             /\ \A k \in 1..n :
                  IF k % 2 = 1 THEN IsName(words[k]) \/ IsNumeral(words[k])
                  ELSE IsComparison(words[k]))
        THEN NotPython
        ELSE IF names # {} /\ (n = 1 \/ Min(names) <= 3 \/ Holds(2))
        THEN Raised("NameError")
        ELSE IF n = 1 THEN Returned(PyInt(NatOf(words[1])))
        ELSE Returned(PyBool(\A k \in 1..n : k % 2 = 0 => Holds(k)))

\* whether a Python value is None
IsNone(v) == v = PyNone

\* the call of the coercion named type_name on v: int, float, str, bool; another
\* name is bound to nothing
Coerce(type_name, v) ==
    CASE type_name = "int"   -> IntCall(v)
      [] type_name = "float" -> FloatCall(v)
      [] type_name = "str"   -> Returned(PyStr(StrOf(v)))
      [] type_name = "bool"  -> Returned(PyBool(Truthy(v)))
      [] OTHER          -> Raised("NameError")

\* source_item.get(key)
ItemGet(item, key) ==
    LET at == {i \in 1..Len(item) : Str(item[i][1]) = key}
    IN  IF at = {} THEN PyNone ELSE item[Min(at)][2]

\* the outcome X of an evaluation with the place next where the text goes on
At(X, next) == [k |-> X.k, v |-> IF X.k = "return" THEN X.v ELSE PyNone,
                exc |-> IF X.k = "raise" THEN X.exc ELSE "", next |-> next]
Seg(e, i) == IF i \in 1..Len(e) THEN e[i] ELSE ""

RECURSIVE EvalExpr(_, _, _, _)
RECURSIVE EvalOperand(_, _, _, _)

\* the call transform_value(x, "name", args), x evaluated to arg: the
\* pieces after x are `, "`, the name, `", `, the arguments and `)`
TransformCall(e, arg, spellings) ==
    IF arg.k = "syntax" \/ Seg(e, arg.next) # ", \"" \/ Seg(e, arg.next + 2) # "\", "
       \/ Seg(e, arg.next + 4) # ")"
    THEN At(NotPython, arg.next)
    ELSE IF arg.k = "raise" THEN At(arg, arg.next + 5)
    ELSE At(TransformValue(arg.v, Seg(e, arg.next + 1),
                           PyArgs(Spelling(Seg(e, arg.next + 3), spellings))),
            arg.next + 5)

\* An operand of a value expression, from piece i of e on: the fetch
\* source_item.get("f"), None, or the call transform_value(x, "name", args).
EvalOperand(e, i, item, spellings) ==
    CASE Seg(e, i) = "source_item.get(\"" /\ Seg(e, i + 2) = "\")" ->
           At(Returned(ItemGet(item, Seg(e, i + 1))), i + 3)
      [] Seg(e, i) = "None" -> At(Returned(PyNone), i + 1)
      [] Seg(e, i) = "transform_value(" ->
           TransformCall(e, EvalExpr(e, i + 1, item, spellings), spellings)
      [] OTHER -> At(NotPython, i)

\* `type(x) if c is not None else None` from piece i on, x and c evaluated:
\* Python reads the condition c first and x only when c is not None
CoercedOn(e, i, x, c) ==
    IF x.k = "syntax" \/ Seg(e, x.next) # ") if " \/ c.k = "syntax"
       \/ Seg(e, c.next) # " is not None else None"
    THEN At(NotPython, i)
    ELSE IF c.k = "raise" THEN At(c, c.next + 1)
    ELSE IF IsNone(c.v) THEN At(Returned(PyNone), c.next + 1)
    ELSE IF x.k = "raise" THEN At(x, c.next + 1)
    ELSE At(Coerce(Seg(e, i), x.v), c.next + 1)

Coerced(e, i, x, item, spellings) ==
    CoercedOn(e, i, x, EvalOperand(e, x.next + 1, item, spellings))

\* `x if c is not None else literal` from piece i on, x and c evaluated, or
\* x alone when no ` if ` follows it
DefaultedOn(e, i, x, c, spellings) ==
    IF x.k = "syntax" \/ Seg(e, x.next) # " if " THEN x
    ELSE IF c.k = "syntax" \/ Seg(e, c.next) # " is not None else "
            \/ c.next + 1 > Len(e)
    THEN At(NotPython, i)
    ELSE IF c.k = "raise" THEN At(c, c.next + 2)
    ELSE IF IsNone(c.v)
    THEN At(Returned(PyLiteral(Spelling(Seg(e, c.next + 1), spellings))), c.next + 2)
    ELSE At(x, c.next + 2)

Defaulted(e, i, x, item, spellings) ==
    DefaultedOn(e, i, x, EvalOperand(e, x.next + 1, item, spellings), spellings)

\* A value expression, from piece i of e on: an operand; `x if c is not
\* None else literal`, x and c operands; or `type(x) if c is not None else
\* None`, x an expression and c an operand.
EvalExpr(e, i, item, spellings) ==
    IF Seg(e, i + 1) = "("
    THEN Coerced(e, i, EvalExpr(e, i + 2, item, spellings), item, spellings)
    ELSE Defaulted(e, i, EvalOperand(e, i, item, spellings), item, spellings)

\* the outcome x of the expression e when x ends where e ends
Whole(e, x) == IF x.k # "syntax" /\ x.next = Len(e) + 1 THEN x ELSE At(NotPython, 1)

\* the value expression e as a whole
EvalValueExpr(e, item, spellings) == Whole(e, EvalExpr(e, 1, item, spellings))

-----------------------------------------------------------------------------
(* The generated program as Python runs it: loading the module text, then  *)
(* one call of execute_mapping (lines 697-808 of the generator) with an    *)
(* input path given for every alias.  The files, the databases and the     *)
(* SQL engine are the environment: a reader that reads gets the records    *)
(* of its file, and the component's query answers with the rows the        *)
(* engine gives it.                                                        *)

\* lines 751 and 643: an f-string whose replacement field holds the quote
\* that delimits the string; Python accepts it from version 3.12 on
NestedQuoteFString(line) ==
    line[1] \in {"        insert_sql = f\"INSERT INTO ",
                 "            cursor.execute(f\"INSERT INTO {table} ({\", \".join(cols)}) VALUES ({placeholders})\", values)"}

\* lines 875-876: the line of a guard
IsIfLine(line) == Len(line) = 4 /\ line[2] = "if " /\ line[4] = ":"

\* lines 877-879: the line of an assignment to output_item
IsAssignLine(line) ==
    Len(line) >= 5 /\ line[2] \in {"output_item[\"", "    output_item[\""}

\* lines 778-787: the body of the loop over source_items
RuleSection(lines) ==
    LET from == Min({i \in 1..Len(lines) : lines[i] = <<"        output_item = {}">>})
        to == Min({i \in from..Len(lines) :
                     lines[i] = <<"        output_items.append(output_item)">>})
    IN  SubSeq(lines, from + 1, to - 1)

\* whether Python compiles the module text
Compiles(lines, pep701, spellings) ==
    /\ \A i \in 1..Len(lines) : NestedQuoteFString(lines[i]) => pep701
    /\ \A i \in 1..Len(RuleSection(lines)) :
         LET line == RuleSection(lines)[i]
         IN  /\ IsIfLine(line) =>
                  EvalCondition(Spelling(line[3], spellings)) # NotPython
             /\ IsAssignLine(line) =>
                  EvalValueExpr(SubSeq(line, 5, Len(line)), <<>>, spellings).k
                    # "syntax"

\* the name and the parameters a def line of a reader or writer declares
Signature(def) ==
    CASE def = "def read_source(file_path: str, root_element: Optional[str] = None) -> List[Dict]:"
           -> [name |-> "read_source", parameters |-> {"file_path", "root_element"}]
      [] def = "def read_source(file_path: str, has_header: bool = True) -> List[Dict]:"
           -> [name |-> "read_source", parameters |-> {"file_path", "has_header"}]
      [] def = "def read_source(file_path: str) -> List[Dict]:"
           -> [name |-> "read_source", parameters |-> {"file_path"}]
      [] def = "def read_edi_source(file_path: str, delimiter: str = \"~\") -> List[Dict]:"
           -> [name |-> "read_edi_source", parameters |-> {"file_path", "delimiter"}]
      [] def = "def read_db_source(db_type: str, connection_string: str, query: str) -> List[Dict]:"
           -> [name |-> "read_db_source",
               parameters |-> {"db_type", "connection_string", "query"}]
      [] def = "def write_target(items: List[Dict], output_path: str, root_element: str = \"Root\"):"
           -> [name |-> "write_target",
               parameters |-> {"items", "output_path", "root_element"}]
      [] def = "def write_target(items: List[Dict], output_path: str, delimiter: str = \"~\"):"
           -> [name |-> "write_target",
               parameters |-> {"items", "output_path", "delimiter"}]
      [] def = "def write_target(items: List[Dict], output_path: str):"
           -> [name |-> "write_target", parameters |-> {"items", "output_path"}]
      [] def = "def write_db_target(items: List[Dict], db_type: str, connection_string: str, table: str):"
           -> [name |-> "write_db_target",
               parameters |-> {"items", "db_type", "connection_string", "table"}]
      [] OTHER -> [name |-> "", parameters |-> {}]

\* the def lines of a routine, at the top level of the module
DefsOf(lines, routine) ==
    {i \in 1..Len(lines) : Len(lines[i]) = 1 /\ Signature(lines[i][1]).name = routine}

\* whether the routine defined at line i only returns an empty list or
\* passes, lines 593 and 674
IsStub(lines, i) == lines[i + 1] \in { <<"    return []">>, <<"    pass">> }

\* lines 715-734: the call a line makes to read a source, if it makes one
ReadCallOf(line) ==
    IF Len(line) >= 4 /\ line[1] = "        sources_data[\""
    THEN (CASE line[3] = "\"] = read_source(input_for_" ->
                 [name |-> "read_source", alias |-> line[2],
                  keyword |-> IF line[5] = ", has_header=" THEN "has_header"
                              ELSE "root_element"]
            [] line[3] = "\"] = read_db_source(\"" ->
                 [name |-> "read_db_source", alias |-> line[2], keyword |-> "query"]
            [] line[3] = "\"] = read_edi_source(input_for_" ->
                 [name |-> "read_edi_source", alias |-> line[2],
                  keyword |-> "delimiter"]
            [] OTHER -> [name |-> ""])
    ELSE IF Len(line) >= 4 /\ line[1] = "        with open(input_for_"
    THEN [name |-> "json.load", alias |-> line[4], keyword |-> ""]
    ELSE [name |-> ""]

\* lines 791-805: the call a line makes to write the target, if it makes one
WriteCallOf(line) ==
    CASE line[1] = "    write_target(output_items, output_path)" ->
           [name |-> "write_target", keyword |-> "output_path"]
      [] line[1] = "    write_target(output_items, output_path, delimiter=\"" ->
           [name |-> "write_target", keyword |-> "delimiter"]
      [] line[1] = "    write_target(output_items, output_path, root_element=\"" ->
           [name |-> "write_target", keyword |-> "root_element"]
      [] line[1] = "    write_db_target(output_items, \"" ->
           [name |-> "write_db_target", keyword |-> "table"]
      [] OTHER -> [name |-> ""]

\* the records every file and database of the environment holds
FileRecords == << << <<(<<"a">>), PyStr(<<"a", "b">>)>> >> >>

\* A call of a reader or writer of the program: the name is bound to the
\* def that ran last; an unbound name raises NameError, a keyword the def
\* does not declare raises TypeError; a stub does nothing.
CallRoutine(lines, made, result) ==
    LET defs == DefsOf(lines, made.name)
        def == Max(defs)
    IN  IF made.name = "json.load" THEN [k |-> "return", v |-> result, stub |-> FALSE]
        ELSE IF defs = {} THEN Raised("NameError")
        ELSE IF made.keyword \notin Signature(lines[def][1]).parameters THEN Raised("TypeError")
        ELSE IF IsStub(lines, def) THEN [k |-> "return", v |-> <<>>, stub |-> TRUE]
        ELSE [k |-> "return", v |-> result, stub |-> FALSE]

\* output_item[key] = v
Put(out, key, v) ==
    IF \E i \in 1..Len(out) : out[i][1] = key
    THEN [i \in 1..Len(out) |-> IF out[i][1] = key THEN <<key, v>> ELSE out[i]]
    ELSE Append(out, <<key, v>>)

RECURSIVE RunRules(_, _, _, _, _)

\* lines 877-879: the assignment of line at, its expression evaluated to x,
\* then the statements from next on
Assigned(ls, at, next, item, out, spellings, x) ==
    IF x.k = "raise" THEN Raised(x.exc)
    ELSE RunRules(ls, next, item, Put(out, ls[at][3], x.v), spellings)

\* the expression of the assignment line at
AssignedExpr(ls, at) == SubSeq(ls[at], 5, Len(ls[at]))

\* lines 875-879: the guard of line k, its condition evaluated to c, with
\* the assignment under it
Guarded(ls, k, item, out, spellings, c) ==
    IF c.k = "raise" THEN c
    ELSE IF ~Truthy(c.v) THEN RunRules(ls, k + 2, item, out, spellings)
    ELSE Assigned(ls, k + 1, k + 2, item, out, spellings,
                  EvalValueExpr(AssignedExpr(ls, k + 1), item, spellings))

\* lines 780-787 for one source_item: the statements ls of the loop body
\* from statement k on, output_item being out
RunRules(ls, k, item, out, spellings) ==
    IF k > Len(ls) THEN Returned(out)
    ELSE IF IsIfLine(ls[k])
    THEN Guarded(ls, k, item, out, spellings,
                 EvalCondition(Spelling(ls[k][3], spellings)))
    ELSE IF IsAssignLine(ls[k])
    THEN Assigned(ls, k, k + 1, item, out, spellings,
                  EvalValueExpr(AssignedExpr(ls, k), item, spellings))
    ELSE RunRules(ls, k + 1, item, out, spellings)

\* the steps of a run, each with its outcome
Step(kind, what, outcome) == [step |-> kind, what |-> what, outcome |-> outcome]

\* lines 707-734: the reads, in the order of the text
ReadSteps(lines) ==
    LET calls == SelectSeq([i \in 1..Len(lines) |-> ReadCallOf(lines[i])],
                           LAMBDA c : c.name # "")
    IN  [i \in 1..Len(calls) |->
           Step("read", calls[i].alias, CallRoutine(lines, calls[i], FileRecords))]

\* sources_data[alias] after the reads
SourcesData(reads, alias) ==
    LET at == {i \in 1..Len(reads) : reads[i].what = alias}
    IN  IF at = {} THEN <<>> ELSE reads[Max(at)].outcome.v

\* lines 742-755: the tables, in the order of the text; creating a table
\* that is there already raises
TableSteps(lines, reads) ==
    LET heads == SelectSeq(lines, LAMBDA l : Len(l) = 5 /\ l[1] = "    if \"")
        filled == SelectSeq(heads, LAMBDA l : SourcesData(reads, l[2]) # <<>>)
    IN  [i \in 1..Len(filled) |->
           Step("table", filled[i][2],
                IF \E j \in 1..(i - 1) : filled[j][2] = filled[i][2]
                THEN Raised("OperationalError")
                ELSE Returned(SourcesData(reads, filled[i][2])))]

\* lines 757-772: the records that drive rule application, the answer rows
\* of the engine with a component, else the records of the first source
SourceItemsStep(lines, reads, rows) ==
    LET query == {i \in 1..Len(lines) : lines[i][1] = "    cursor.execute(\"\"\""}
        first == {i \in 1..Len(lines) :
                    lines[i][1] = "    source_items = sources_data.get(\""}
    IN  IF query # {} THEN <<Step("query", "", Returned(rows))>>
        ELSE IF first # {}
        THEN <<Step("source_items", lines[Min(first)][2],
                    Returned(SourcesData(reads, lines[Min(first)][2])))>>
        ELSE <<>>

RECURSIVE RuleSteps(_, _, _)
\* lines 776-787: one step per record
RuleSteps(lines, items, spellings) ==
    IF items = <<>> THEN <<>>
    ELSE <<Step("rules", "", RunRules(RuleSection(lines), 1, Head(items), <<>>,
                                      spellings))>>
         \o RuleSteps(lines, Tail(items), spellings)

\* lines 791-805: the write
WriteSteps(lines, output_items) ==
    LET calls == SelectSeq([i \in 1..Len(lines) |-> WriteCallOf(lines[i])],
                           LAMBDA c : c.name # "")
    IN  [i \in 1..Len(calls) |->
           Step("write", "", CallRoutine(lines, calls[i], output_items))]

\* the steps up to and with the first that raises
UpToRaise(steps) ==
    LET bad == {i \in 1..Len(steps) : steps[i].outcome.k = "raise"}
    IN  IF bad = {} THEN steps ELSE SubSeq(steps, 1, Min(bad))

\* whether the last of the steps raised
Ended(steps) == steps # <<>> /\ steps[Len(steps)].outcome.k = "raise"
\* a run that ends with the exception of its last step
Failure(steps) == [steps |-> steps, out |-> Raised(steps[Len(steps)].outcome.exc)]
\* line 787: the output items of the rule steps
OutputItems(applied) == [i \in 1..Len(applied) |-> applied[i].outcome.v]

\* lines 790-808: the run after the write
AfterWrite(steps, output_items, write) ==
    IF Ended(write) THEN Failure(steps \o write)
    ELSE [steps |-> steps \o write, out |-> Returned(output_items)]

\* lines 776-805: the run after rule application
AfterRules(lines, before, applied) ==
    IF Ended(applied) THEN Failure(before \o applied)
    ELSE AfterWrite(before \o applied, OutputItems(applied),
                    WriteSteps(lines, OutputItems(applied)))

\* lines 757-787: the run once source_items is bound
AfterSourceItems(lines, spellings, before, source_items) ==
    AfterRules(lines, before \o source_items,
               UpToRaise(RuleSteps(lines, source_items[1].outcome.v, spellings)))

\* lines 737-772: the run after the tables
AfterTables(lines, rows, spellings, reads, tables) ==
    IF Ended(tables) THEN Failure(reads \o tables)
    ELSE AfterSourceItems(lines, spellings, reads \o tables,
                          SourceItemsStep(lines, reads, rows))

\* lines 707-755: the run after the reads
AfterReads(lines, rows, spellings, reads) ==
    IF Ended(reads) THEN Failure(reads)
    ELSE AfterTables(lines, rows, spellings, reads,
                     UpToRaise(TableSteps(lines, reads)))

\* Loading the program and calling execute_mapping: the steps taken and
\* the outcome, the list of output items or the exception.
ExecuteMapping(lines, pep701, rows, spellings) ==
    IF ~Compiles(lines, pep701, spellings)
    THEN [steps |-> <<>>, out |-> Raised("SyntaxError")]
    ELSE AfterReads(lines, rows, spellings, UpToRaise(ReadSteps(lines)))

-----------------------------------------------------------------------------
(* Bounds of the inputs *)

\* the number of pieces a lexer input is made of
MaxPieces == 3
\* the number of Parser.parse() calls on one document
MaxParses == 2

\* The pieces lexer inputs are concatenated from: single characters of every
\* class the patterns distinguish, the short keywords, and a string and a
\* comment that hold a character of no token.
LexPieces == {
    <<"i","f">>, <<"A","s">>, <<"x">>, <<"/">>, <<"1">>, <<"-">>, <<">">>,
    <<"=">>, <<"@">>, <<"#">>, <<"\"">>, <<"\n">>, <<" ">>,
    <<"\"", "@", "\"">>, <<"#", "@">> }

RECURSIVE Concat(_)
Concat(ss) == IF ss = <<>> THEN <<>> ELSE Head(ss) \o Concat(Tail(ss))

SeqsUpTo(S, n) == UNION {[1..k -> S] : k \in 0..n}

LexDocs == SeqsUpTo(LexPieces, MaxPieces)

-----------------------------------------------------------------------------
(* The DML documents the parser is run on.  A document is described by a   *)
(* record (its name, its SOURCE sections, its TARGET and COMPONENT section *)
(* if any, the statements of its RULES block and a damage done to its      *)
(* words); its text is the rendering of the description, words separated   *)
(* by single spaces.                                                       *)

\* the number of SOURCE sections of a generated document
MaxSources == 2
\* the number of statements in the RULES block of a generated document
MaxRules == 2
\* the number of CodeGenerator.generate() calls on one mapping definition
MaxGenerates == 2

T_MAPPING == <<"M","A","P","P","I","N","G">>
T_SOURCE == <<"S","O","U","R","C","E">>
T_TARGET == <<"T","A","R","G","E","T">>
T_COMPONENT == <<"C","O","M","P","O","N","E","N","T">>
T_RULES == <<"R","U","L","E","S">>
T_map == <<"m","a","p">>
T_loop == <<"l","o","o","p">>
T_AS == <<"A","S">>
T_TRANSFORM == <<"T","R","A","N","S","F","O","R","M">>
T_IF == <<"I","F">>
T_DEFAULT == <<"D","E","F","A","U","L","T">>
T_csv == <<"c","s","v">>
T_Xml == <<"X","m","l">>
T_foo == <<"f","o","o">>
T_SQL == <<"S","Q","L">>
T_m == <<"m">>
T_s == <<"s">>
T_a == <<"a">>
T_b == <<"b">>
T_c == <<"c">>
T_f == <<"f">>
T_q == <<"q">>
T_o == <<"o">>
T_x == <<"x">>
T_d == <<"d">>
T_file == <<"f","i","l","e">>
T_opts == <<"o","p","t","s">>
T_Float == <<"F","l","o","a","t">>
T_transformation_test == <<"t","r","a","n","s","f","o","r","m","a","t","i","o","n","_","t","e","s","t">>
T_ifx == <<"i","f","x">>
T_default_rate == <<"d","e","f","a","u","l","t","_","r","a","t","e">>
T_Item_id == <<"I","t","e","m","/","i","d">>
T_Source_id == <<"S","o","u","r","c","e","/","i","d">>
T_Defaults_id == <<"D","e","f","a","u","l","t","s","/","i","d">>
T_5 == <<"5">>
T_1_5 == <<"1",".","5">>
T_neg2 == <<"-","2">>

\* a literal: a quoted string, a bare word (identifier or numeral), or a
\* value left out
Quoted(v) == [q |-> "str", v |-> v]
Bare(v) == [q |-> "bare", v |-> v]
Missing == [q |-> "none", v |-> <<>>]
\* a nested config block with one entry
Block(k, v) == [q |-> "block", v |-> v, k |-> k]

Entry(key, val) == [key |-> key, val |-> val]
Section(type, alias, config) == [type |-> type, alias |-> alias, config |-> config]
NoSection == [type |-> <<>>]
MapStmt(src, tgt, mods) == [k |-> "map", src |-> src, tgt |-> tgt, mods |-> mods]
LoopStmt(coll, body) == [k |-> "loop", coll |-> coll, body |-> body]
JunkStmt(w) == [k |-> "junk", w |-> w]
Transform(f, args) == [m |-> "TRANSFORM", f |-> f, args |-> args]
If(cond) == [m |-> "IF", cond |-> cond]
Default(val) == [m |-> "DEFAULT", val |-> val]
As(ty) == [m |-> "AS", ty |-> ty]
NoDamage == [op |-> "none", at |-> 0]
Doc(n, srcs, tgt, comp, stmts, damage) ==
    [name |-> n, sources |-> srcs, target |-> tgt, component |-> comp,
     stmts |-> stmts, damage |-> damage]

LiteralWords(l) ==
    CASE l.q = "str"   -> << <<"\"">> \o l.v \o <<"\"">> >>
      [] l.q = "bare"  -> <<l.v>>
      [] l.q = "none"  -> <<>>
      [] l.q = "block" -> <<<<"{">>, l.k, <<":">>, <<"\"">> \o l.v \o <<"\"">>, <<"}">>>>

ConfigWords(config) ==
    << <<"{">> >>
    \o Flatten([i \in 1..Len(config) |->
                  <<config[i].key, <<":">>>> \o LiteralWords(config[i].val)])
    \o << <<"}">> >>

SectionWords(keyword, sec) ==
    IF sec = NoSection THEN <<>>
    ELSE <<keyword, sec.type>>
         \o (IF sec.alias # <<>> THEN <<T_AS, sec.alias>> ELSE <<>>)
         \o ConfigWords(sec.config)

ModWords(mod) ==
    CASE mod.m = "TRANSFORM" ->
           <<T_TRANSFORM, mod.f, <<"(">>>>
           \o Join(<< <<",">> >>, [i \in 1..Len(mod.args) |-> LiteralWords(mod.args[i])])
           \o << <<")">> >>
      [] mod.m = "IF"      -> <<T_IF>> \o mod.cond
      [] mod.m = "DEFAULT" -> <<T_DEFAULT>> \o LiteralWords(mod.val)
      [] mod.m = "AS"      -> <<T_AS, mod.ty>>

MapWords(st) ==
    <<T_map, st.src, <<"-", ">">>>>
    \o (IF st.tgt # <<>> THEN <<st.tgt>> ELSE <<>>)
    \o Flatten([i \in 1..Len(st.mods) |-> ModWords(st.mods[i])])

StmtWords(st) ==
    CASE st.k = "map"  -> MapWords(st)
      [] st.k = "loop" -> <<T_loop, st.coll, <<"{">>>>
                          \o Flatten([i \in 1..Len(st.body) |-> MapWords(st.body[i])])
                          \o << <<"}">> >>
      [] st.k = "junk" -> <<st.w>>

\* the words of the undamaged document
DocWords(d) ==
    <<T_MAPPING, d.name, <<"{">>>>
    \o Flatten([i \in 1..Len(d.sources) |-> SectionWords(T_SOURCE, d.sources[i])])
    \o SectionWords(T_TARGET, d.target)
    \o SectionWords(T_COMPONENT, d.component)
    \o (IF d.stmts = <<>> THEN <<>>
        ELSE <<T_RULES, <<"{">>>>
             \o Flatten([i \in 1..Len(d.stmts) |-> StmtWords(d.stmts[i])])
             \o << <<"}">> >>)
    \o << <<"}">> >>

\* the damage: the words from number at on cut off, word number at left
\* out, word number at replaced by a character of no token, or a word put
\* after the last
Damaged(ws, damage) ==
    CASE damage.op = "none" -> ws
      [] damage.op = "cut"  -> SubSeq(ws, 1, damage.at - 1)
      [] damage.op = "drop" -> SubSeq(ws, 1, damage.at - 1)
                               \o SubSeq(ws, damage.at + 1, Len(ws))
      [] damage.op = "mark" -> SubSeq(ws, 1, damage.at - 1) \o << <<"@">> >>
                               \o SubSeq(ws, damage.at + 1, Len(ws))
      [] damage.op = "tail" -> ws \o << <<"}">> >>

\* the text of a document
Render(d) == Join(<<" ">>, Damaged(DocWords(d), d.damage))

SimpleStmt == MapStmt(T_a, T_b, <<>>)
QueryConfig == <<Entry(W_query, Quoted(T_q))>>

SourcePool == {
    Section(W_CSV, <<>>, <<>>),
    Section(T_Xml, T_s, <<Entry(T_file, Quoted(T_a))>>),
    Section(W_DB, <<>>, <<Entry(W_query, Missing)>>) }

TargetPool == { Section(W_CSV, <<>>, <<Entry(T_file, Quoted(T_o))>>),
                Section(W_XML, <<>>, <<>>) }

SqlComponent == Section(T_SQL, <<>>, QueryConfig)

ComponentPool == { NoSection, SqlComponent }

StmtPool == {
    SimpleStmt,
    MapStmt(T_c, T_d, <<Transform(T_f, <<Quoted(T_x)>>), Default(Bare(T_5)),
                        As(T_Float)>>),
    MapStmt(T_a, T_b, <<If(<<T_a, <<">">>, T_5>>)>>),
    LoopStmt(T_c, <<SimpleStmt>>) }

\* statements out of the grammar: a map statement without target, a word
\* that starts no statement
OddStmtPool == { MapStmt(T_a, <<>>, <<>>), JunkStmt(T_x) }

NamePool == {T_m, T_transformation_test, T_ifx}
FieldPool == {T_a, T_default_rate, T_Item_id, T_Source_id, T_Defaults_id}
ValuePool == {Bare(T_5), Bare(T_1_5), Bare(T_neg2), Quoted(T_x), Missing}

\* documents that differ in their sources and in having a component,
\* documents that differ in their target, and documents with a source and
\* a target
SectionDocs ==
    {Doc(T_m, srcs, NoSection, comp, <<SimpleStmt>>, NoDamage) :
       srcs \in SeqsUpTo(SourcePool, MaxSources), comp \in ComponentPool}
    \cup {Doc(T_m, <<>>, tgt, SqlComponent, <<SimpleStmt>>, NoDamage) :
            tgt \in TargetPool}
    \cup {Doc(T_m, <<src>>, tgt, SqlComponent, <<SimpleStmt>>, NoDamage) :
            src \in SourcePool, tgt \in TargetPool}

\* documents that differ in their rules
RuleDocs ==
    {Doc(T_m, <<>>, NoSection, SqlComponent, stmts, NoDamage) :
       stmts \in SeqsUpTo(StmtPool, MaxRules)}
    \cup {Doc(T_m, <<>>, NoSection, SqlComponent, <<st>>, NoDamage) :
            st \in OddStmtPool}

\* documents that differ in their name or in the fields of their rule
NameDocs ==
    {Doc(n, <<>>, NoSection, SqlComponent, <<SimpleStmt>>, NoDamage) : n \in NamePool}
    \cup {Doc(T_m, <<>>, NoSection, SqlComponent, <<MapStmt(f, g, <<>>)>>, NoDamage) :
            f \in FieldPool, g \in FieldPool}

\* documents that differ in a value: of a config key, of DEFAULT, of a
\* transform argument
ValueDocs ==
    {Doc(T_m, <<Section(W_CSV, <<>>, <<Entry(T_file, v)>>)>>, NoSection, SqlComponent,
         <<MapStmt(T_a, T_b, <<Default(v),
                                 Transform(T_f, IF v.q = "none" THEN <<>> ELSE <<v>>)>>)>>,
         NoDamage) :
       v \in ValuePool}

FullDoc(damage) ==
    Doc(T_m, <<Section(T_foo, T_s, <<Entry(T_opts, Block(T_d, T_x))>>)>>,
        Section(W_XML, <<>>, <<>>), SqlComponent,
        <<MapStmt(T_a, T_b, <<Transform(T_f, <<Quoted(T_x)>>), As(T_Float)>>)>>,
        damage)

\* one document with each of its words cut off, left out or replaced in
\* turn, or with a closing brace too many
DamagedDocs ==
    {FullDoc([op |-> o, at |-> i]) :
       o \in {"cut", "drop", "mark"}, i \in 1..Len(DocWords(FullDoc(NoDamage)))}
    \cup {FullDoc([op |-> "tail", at |-> 0])}

\* documents with one SOURCE without AS, one TARGET and map statements
\* without modifiers
PlainDocs ==
    {Doc(T_m, <<src>>, tgt, SqlComponent, stmts, NoDamage) :
       src \in {Section(T_csv, <<>>, <<Entry(T_file, Quoted(T_a))>>),
                Section(T_foo, <<>>, <<>>)},
       tgt \in TargetPool,
       stmts \in SeqsUpTo({SimpleStmt, MapStmt(T_c, T_d, <<>>)}, MaxRules) \ {<<>>}}

T_1 == <<"1">>
T_int == <<"i","n","t">>

\* the conditions of the IF modifiers: a comparison of a field with a
\* numeral, two comparisons of numerals, and no word at all
CondPool == { <<T_a, <<">">>, T_5>>, <<T_5, <<">">>, T_1>>, <<T_1, <<">">>, T_5>>, <<>> }

\* what follows the IF modifier: nothing, each of the other modifiers, or
\* one more IF
AfterIfPool == { <<>>, <<Default(Quoted(T_x))>>, <<As(T_int)>>,
                 <<Transform(T_f, <<>>)>>, <<If(<<T_b>>)>> }

\* documents with one map statement that has an IF modifier
CondDocs ==
    {Doc(T_m, <<>>, NoSection, SqlComponent,
         <<MapStmt(T_a, T_b, <<If(c)>> \o after)>>, NoDamage) :
       c \in CondPool, after \in AfterIfPool}
    \cup {Doc(T_m, <<>>, NoSection, SqlComponent,
              <<MapStmt(T_a, T_b, <<Default(Quoted(T_x)), If(c)>>)>>, NoDamage) :
            c \in CondPool}

T_trim == <<"t","r","i","m">>

\* the type names of AS and the transforms of TRANSFORM in the documents
\* about modifiers
TypeNamePool == {W_integer, W_int, W_string, W_str, W_decimal, W_float,
                 W_boolean, W_bool}
TransformPool == {T_trim, W_float}

\* the modifier lists: AS alone; TRANSFORM and AS in both orders, also
\* after DEFAULT; DEFAULT alone, with AS and with TRANSFORM
ModsPool ==
    {<<As(t)>> : t \in TypeNamePool}
    \cup {<<Transform(f, <<>>), As(t)>> : f \in TransformPool, t \in TypeNamePool}
    \cup {<<As(t), Transform(f, <<>>)>> : f \in TransformPool, t \in TypeNamePool}
    \cup {<<Default(Quoted(T_x)), Transform(T_trim, <<>>), As(t)>> :
            t \in {W_string, W_boolean}}
    \cup { <<Default(Quoted(T_x))>>, <<Default(Quoted(T_x)), As(W_int)>>,
           <<Default(Quoted(T_x)), Transform(T_trim, <<>>)>> }

\* documents with one map statement and the modifiers of ModsPool
ModDocs ==
    {Doc(T_m, <<>>, NoSection, SqlComponent, <<MapStmt(T_a, T_b, mods)>>, NoDamage) :
       mods \in ModsPool}

\* documents with a component whose source or target has a format that is
\* none of the known ones, next to a JSON source and to no source or target
FormatDocs ==
    {Doc(T_m, srcs, tgt, SqlComponent, <<SimpleStmt>>, NoDamage) :
       srcs \in {<<>>, <<Section(T_foo, <<>>, <<>>)>>, <<Section(W_JSON, <<>>, <<>>)>>},
       tgt \in {NoSection, Section(T_foo, <<>>, <<>>)}}

Docs == SectionDocs \cup RuleDocs \cup NameDocs \cup ValueDocs \cup DamagedDocs
        \cup PlainDocs \cup CondDocs \cup ModDocs \cup FormatDocs

-----------------------------------------------------------------------------
(* Tokenizer.tokenize, one iteration of its while loop per step *)

\* Parser.parse, line 109: the call of self.tokenizer.tokenize() starts, with
\* fresh locals.  The calls of parse() on a document come before the calls
\* of generate().
Parse ==
    /\ pc \in {"idle", "done", "error"}
    /\ Len(outcomes) < MaxParses
    /\ generated = <<>>
    /\ pc' = "lex"
    /\ lpos' = 0
    /\ ltokens' = <<>>
    /\ err' = NoErr
    /\ name' = <<>>
    /\ sources' = <<>>
    /\ target' = PyNone
    /\ component' = PyNone
    /\ rules' = <<>>
    /\ sect' = <<>>
    /\ frames' = <<>>
    /\ rule' = <<>>
    /\ call' = <<>>
    /\ UNCHANGED <<text, tokens, pos, outcomes, generated, doc, executed>>

\* Parser.__init__, lines 102-105: another Parser instance for the same text
NewParser ==
    /\ pc \in {"done", "error"}
    /\ Len(outcomes) < MaxParses
    /\ generated = <<>>
    /\ tokens' = <<>>
    /\ pos' = 0
    /\ pc' = "idle"
    /\ UNCHANGED <<lexVars, err, astVars, subVars, outcomes, generated, doc, executed>>

\* lines 81-95, one iteration of the while loop: the first pattern that
\* matches at pos consumes its match, or none does and the SyntaxError
\* leaves parse()
LexStep ==
    /\ pc = "lex"
    /\ lpos < Len(text)
    /\ LET i == FirstMatch(text, lpos)
           entry == TOKENS[i]
           n == MatchLen(entry[2], text, lpos)
           value == SubSeq(text, lpos + 1, lpos + n)
       IN  IF i # 0
           THEN /\ ltokens' = IF entry[1] \notin {"WS", "COMMENT"}
                              THEN Append(ltokens, Token(entry[1], value))
                              ELSE ltokens
                /\ lpos' = lpos + n
                /\ UNCHANGED <<pc, err, outcomes>>
           ELSE /\ pc' = "error"
                /\ err' = LexError(lpos, text[lpos + 1])
                /\ outcomes' = Append(outcomes, [ok |-> FALSE, err |-> err'])
                /\ UNCHANGED <<lpos, ltokens>>
    /\ UNCHANGED <<text, tokens, pos, astVars, subVars, generated, doc, executed>>

\* LexDone without line 110: the cursor stays where the call before left it
LexDoneKeepsCursor ==
    /\ pc = "lex"
    /\ lpos >= Len(text)
    /\ tokens' = ltokens
    /\ pc' = "mapping_head"
    /\ UNCHANGED <<lexVars, pos, err, astVars, subVars, outcomes, generated, doc, executed>>

\* line 96 and Parser.parse, lines 109-111: tokenize returns, parse stores
\* the tokens, resets the cursor and calls parse_mapping
LexDone ==
    /\ pc = "lex"
    /\ lpos >= Len(text)
    /\ tokens' = ltokens
    /\ pos' = 0
    /\ pc' = "mapping_head"
    /\ UNCHANGED <<lexVars, err, astVars, subVars, outcomes, generated, doc, executed>>

-----------------------------------------------------------------------------
(* Parser.parse_mapping and parse_source_target, one loop iteration (or    *)
(* one straight-line stretch) per step                                     *)

\* lines 142-151
ParseMappingHead ==
    /\ pc = "mapping_head"
    /\ LET e1 == Expect(tokens, pos, "MAPPING")
           e2 == Expect(tokens, e1.pos, "IDENT")
           e3 == Expect(tokens, SkipWhitespace(tokens, e2.pos), "LBRACE")
           r == Chain(<<e1, e2, e3>>)
       IN  IF r.ok
           THEN /\ pos' = r.pos
                /\ name' = e2.tok.value
                /\ sources' = <<>>
                /\ target' = PyNone
                /\ component' = PyNone
                /\ rules' = <<>>
                /\ pc' = "mapping_loop"
                /\ UNCHANGED <<err, outcomes>>
           ELSE Raise(r) /\ UNCHANGED astVars
    /\ UNCHANGED <<lexVars, tokens, subVars, generated, doc, executed>>

\* SyntaxError(f"Unexpected token in mapping: {self.current_token()}")
UnexpectedError(tok) == [kind |-> "unexpected", got |-> tok]

\* lines 153-165: one iteration of the section loop, up to the call of
\* parse_source_target or parse_rules
ParseMappingIter ==
    /\ pc = "mapping_loop"
    /\ Cur(tokens, pos) # NoneTok
    /\ Cur(tokens, pos).type # "RBRACE"
    /\ LET p1 == SkipWhitespace(tokens, pos)
           token == Cur(tokens, p1)
       IN  IF token.type \in {"SOURCE", "TARGET", "COMPONENT"}
           THEN /\ pos' = p1 + 1
                /\ sect' = [kind |-> token.type]
                /\ pc' = "pst_head"
                /\ UNCHANGED <<err, outcomes>>
           ELSE IF token.type = "RULES"
           THEN /\ pos' = p1 + 1
                /\ pc' = "rules_head"
                /\ UNCHANGED <<err, outcomes, sect>>
           ELSE /\ Raise([err |-> UnexpectedError(token), pos |-> p1])
                /\ UNCHANGED sect
    /\ UNCHANGED <<lexVars, tokens, astVars, frames, rule, call, generated, doc, executed>>

\* parse_mapping with a default source that carries no alias and a target
\* that is always the default one
MappingResultDefaultTarget ==
    [name      |-> name,
     sources   |-> IF sources # <<>> THEN sources
                   ELSE <<[type |-> W_CSV, config |-> EmptyDict]>>,
     target    |-> [type |-> W_CSV, config |-> EmptyDict],
     component |-> component,
     rules     |-> rules]

\* lines 169-175: the mapping definition parse_mapping returns
MappingResult ==
    [name      |-> name,
     sources   |-> IF sources # <<>> THEN sources
                   ELSE <<[type |-> W_CSV, alias |-> W_source1,
                           config |-> EmptyDict]>>,
     target    |-> IF target # PyNone THEN target
                   ELSE [type |-> W_CSV, config |-> EmptyDict],
     component |-> component,
     rules     |-> rules]

\* lines 167-175: the loop is left; parse() returns the definition
ParseMappingEnd ==
    /\ pc = "mapping_loop"
    /\ Cur(tokens, pos) = NoneTok \/ Cur(tokens, pos).type = "RBRACE"
    /\ LET r == Expect(tokens, pos, "RBRACE")
       IN  IF r.ok
           THEN /\ pos' = r.pos
                /\ pc' = "done"
                /\ outcomes' = Append(outcomes,
                                      [ok |-> TRUE, mapping |-> MappingResult])
                /\ UNCHANGED err
           ELSE Raise(r)
    /\ UNCHANGED <<lexVars, tokens, astVars, subVars, generated, doc, executed>>

TypeTokens == {"XML", "CSV", "DB", "EDI", "JSON", "IDENT"}

\* lines 179-200: the type, the optional alias and the opening brace
ParseSourceTargetHead ==
    /\ pc = "pst_head"
    /\ LET type_token == Cur(tokens, pos)
           p1 == SkipWhitespace(tokens, pos + 1)
           as == Cur(tokens, p1).type = "AS"
           eA == Expect(tokens, SkipWhitespace(tokens, p1 + 1), "IDENT")
           p2 == IF as THEN SkipWhitespace(tokens, eA.pos) ELSE p1
           eL == Expect(tokens, p2, "LBRACE")
           r == IF as THEN Chain(<<eA, eL>>) ELSE Chain(<<eL>>)
       IN  IF type_token = NoneTok
           THEN Raise([err |-> [kind |-> "expected_type"], pos |-> pos])
                /\ UNCHANGED sect
           ELSE IF type_token.type \notin TypeTokens
           THEN Raise([err |-> [kind |-> "expected_source_target_type",
                                got |-> type_token.type], pos |-> pos])
                /\ UNCHANGED sect
           ELSE IF ~r.ok
           THEN Raise(r) /\ UNCHANGED sect
           ELSE /\ pos' = r.pos
                /\ sect' = [kind   |-> sect.kind,
                            type   |-> ToUpper(type_token.value),
                            alias  |-> IF as THEN PyStr(eA.tok.value) ELSE PyNone,
                            config |-> EmptyDict,
                            key    |-> <<>>,
                            nested |-> EmptyDict]
                /\ pc' = "pst_loop"
                /\ UNCHANGED <<err, outcomes>>
    /\ UNCHANGED <<lexVars, tokens, astVars, frames, rule, call, generated, doc, executed>>

\* lines 202-228: one iteration of the config loop, up to the nested block
\* when the value opens one
ParseSourceTargetIter ==
    /\ pc = "pst_loop"
    /\ Cur(tokens, pos) # NoneTok
    /\ Cur(tokens, pos).type # "RBRACE"
    /\ LET eK == Expect(tokens, pos, "IDENT")
           eC == Expect(tokens, SkipWhitespace(tokens, eK.pos), "COLON")
           r == Chain(<<eK, eC>>)
           p1 == SkipWhitespace(tokens, eC.pos)
           pv == ParseValue(tokens, p1)
       IN  IF ~r.ok
           THEN Raise(r) /\ UNCHANGED sect
           ELSE IF Cur(tokens, p1).type = "LBRACE"
           THEN /\ pos' = p1 + 1
                /\ sect' = [sect EXCEPT !.key = eK.tok.value,
                                        !.nested = EmptyDict]
                /\ pc' = "pst_nested_loop"
                /\ UNCHANGED <<err, outcomes>>
           ELSE /\ pos' = SkipComma(tokens, SkipWhitespace(tokens, pv.pos))
                /\ sect' = [sect EXCEPT !.key = eK.tok.value,
                              !.config = DictSet(sect.config, eK.tok.value, pv.val)]
                /\ UNCHANGED <<pc, err, outcomes>>
    /\ UNCHANGED <<lexVars, tokens, astVars, frames, rule, call, generated, doc, executed>>

\* lines 210-218: one iteration of the nested config loop
ParseNestedIter ==
    /\ pc = "pst_nested_loop"
    /\ Cur(tokens, pos) # NoneTok
    /\ Cur(tokens, pos).type # "RBRACE"
    /\ LET eK == Expect(tokens, pos, "IDENT")
           eC == Expect(tokens, SkipWhitespace(tokens, eK.pos), "COLON")
           r == Chain(<<eK, eC>>)
           pv == ParseValue(tokens, eC.pos)
       IN  IF ~r.ok
           THEN Raise(r) /\ UNCHANGED sect
           ELSE /\ pos' = SkipComma(tokens, SkipWhitespace(tokens, pv.pos))
                /\ sect' = [sect EXCEPT
                              !.nested = DictSet(sect.nested, eK.tok.value, pv.val)]
                /\ UNCHANGED <<pc, err, outcomes>>
    /\ UNCHANGED <<lexVars, tokens, astVars, frames, rule, call, generated, doc, executed>>

\* lines 219-228: the nested block closes and becomes the key's value
ParseNestedEnd ==
    /\ pc = "pst_nested_loop"
    /\ Cur(tokens, pos) = NoneTok \/ Cur(tokens, pos).type = "RBRACE"
    /\ LET r == Expect(tokens, pos, "RBRACE")
       IN  IF ~r.ok
           THEN Raise(r) /\ UNCHANGED sect
           ELSE /\ pos' = SkipComma(tokens, SkipWhitespace(tokens, r.pos))
                /\ sect' = [sect EXCEPT
                              !.config = DictSet(sect.config, sect.key,
                                                 PyDict(sect.nested))]
                /\ pc' = "pst_loop"
                /\ UNCHANGED <<err, outcomes>>
    /\ UNCHANGED <<lexVars, tokens, astVars, frames, rule, call, generated, doc, executed>>

\* lines 232-235: the dict parse_source_target returns
SourceTargetResult ==
    IF sect.alias # PyNone
    THEN [type |-> sect.type, config |-> sect.config, alias |-> sect.alias.v]
    ELSE [type |-> sect.type, config |-> sect.config]

\* lines 230-235 and 157, 159, 161: the block closes and parse_mapping
\* stores the result
ParseSourceTargetEnd ==
    /\ pc = "pst_loop"
    /\ Cur(tokens, pos) = NoneTok \/ Cur(tokens, pos).type = "RBRACE"
    /\ LET r == Expect(tokens, pos, "RBRACE")
       IN  IF ~r.ok
           THEN Raise(r) /\ UNCHANGED <<sources, target, component>>
           ELSE /\ pos' = r.pos
                /\ sources' = IF sect.kind = "SOURCE"
                              THEN Append(sources, SourceTargetResult)
                              ELSE sources
                /\ target' = IF sect.kind = "TARGET" THEN SourceTargetResult
                             ELSE target
                /\ component' = IF sect.kind = "COMPONENT" THEN SourceTargetResult
                                ELSE component
                /\ pc' = "mapping_loop"
                /\ UNCHANGED <<err, outcomes>>
    /\ UNCHANGED <<lexVars, tokens, name, rules, subVars, generated, doc, executed>>

-----------------------------------------------------------------------------
(* Parser.parse_rules, parse_rule, parse_loop_rule, parse_function_call    *)
(* and parse_condition.  frames holds the rule lists being filled: the     *)
(* rules of parse_rules at the bottom, the sub_rules of each open          *)
(* parse_loop_rule above it.                                               *)

Frame(kind, coll) == [kind |-> kind, coll |-> coll, rules |-> <<>>]

\* the loop a finished parse_rule call returns into
ReturnPc(frame) == IF frame.kind = "rules" THEN "rules_loop" ELSE "loop_loop"

\* `if rule: rules.append(rule)` (a rule dict is never empty) in the
\* innermost open list
AppendRule(fs, r) ==
    [fs EXCEPT ![Len(fs)].rules = Append(fs[Len(fs)].rules, r)]

\* lines 259-261
ParseRulesHead ==
    /\ pc = "rules_head"
    /\ LET r == Expect(tokens, pos, "LBRACE")
       IN  IF r.ok
           THEN /\ pos' = r.pos
                /\ frames' = <<Frame("rules", <<>>)>>
                /\ pc' = "rules_loop"
                /\ UNCHANGED <<err, outcomes>>
           ELSE Raise(r) /\ UNCHANGED frames
    /\ UNCHANGED <<lexVars, tokens, astVars, sect, rule, call, generated, doc, executed>>

NewRule == [source_fields |-> <<>>, target_field |-> PyNone,
            transform |-> PyNone, condition |-> PyNone,
            default_value |-> PyNone, data_type |-> PyNone]

\* parse_rule, lines 275-281, and parse_loop_rule, lines 371-375, called
\* with the cursor at p1: LOOP opens a loop, MAP starts a map rule, and on
\* any other token parse_rule returns None with the cursor where it was,
\* which the calling loop skips (`if rule:`)
StartRule(p1) ==
    LET token == Cur(tokens, p1)
        eI == Expect(tokens, p1 + 1, "IDENT")
        eL == Expect(tokens, SkipWhitespace(tokens, eI.pos), "LBRACE")
        r == Chain(<<eI, eL>>)
    IN  IF token.type = "LOOP"
        THEN IF r.ok
             THEN /\ pos' = r.pos
                  /\ frames' = Append(frames, Frame("loop", eI.tok.value))
                  /\ pc' = "loop_loop"
                  /\ UNCHANGED <<err, outcomes, rule>>
             ELSE Raise(r) /\ UNCHANGED <<frames, rule>>
        ELSE IF token.type # "MAP"
        THEN /\ pos' = p1
             /\ UNCHANGED <<pc, err, outcomes, frames, rule>>
        ELSE /\ pos' = p1 + 1
             /\ rule' = NewRule
             /\ pc' = "rule_sources"
             /\ UNCHANGED <<err, outcomes, frames>>

\* lines 263-268: one iteration of the loop of parse_rules
ParseRulesIter ==
    /\ pc = "rules_loop"
    /\ Cur(tokens, pos) # NoneTok
    /\ Cur(tokens, pos).type # "RBRACE"
    /\ StartRule(SkipWhitespace(tokens, pos))
    /\ UNCHANGED <<lexVars, tokens, astVars, sect, call, generated, doc, executed>>

\* lines 270-271 and 163
ParseRulesEnd ==
    /\ pc = "rules_loop"
    /\ Cur(tokens, pos) = NoneTok \/ Cur(tokens, pos).type = "RBRACE"
    /\ LET r == Expect(tokens, pos, "RBRACE")
       IN  IF r.ok
           THEN /\ pos' = r.pos
                /\ rules' = frames[1].rules
                /\ frames' = <<>>
                /\ pc' = "mapping_loop"
                /\ UNCHANGED <<err, outcomes>>
           ELSE Raise(r) /\ UNCHANGED <<rules, frames>>
    /\ UNCHANGED <<lexVars, tokens, name, sources, target, component, sect,
                   rule, call, generated, doc, executed>>

\* lines 376-379: one iteration of the loop of parse_loop_rule
ParseLoopIter ==
    /\ pc = "loop_loop"
    /\ Cur(tokens, pos) # NoneTok
    /\ Cur(tokens, pos).type # "RBRACE"
    /\ StartRule(pos)
    /\ UNCHANGED <<lexVars, tokens, astVars, sect, call, generated, doc, executed>>

\* lines 383-387: the dict parse_loop_rule returns (sub_rules is dropped)
LoopResult(source_collection) ==
    [source_field |-> source_collection,
     target_field |-> W_loop,
     transform    |-> PyStr(W_loop \o <<"(">> \o Repr(PyStr(source_collection))
                            \o <<")">>)]

\* lines 381-387: the loop body closes; its rule goes to the enclosing list
ParseLoopEnd ==
    /\ pc = "loop_loop"
    /\ Cur(tokens, pos) = NoneTok \/ Cur(tokens, pos).type = "RBRACE"
    /\ LET r == Expect(tokens, pos, "RBRACE")
           outer == SubSeq(frames, 1, Len(frames) - 1)
       IN  IF r.ok
           THEN /\ pos' = r.pos
                /\ frames' = AppendRule(outer, LoopResult(frames[Len(frames)].coll))
                /\ pc' = ReturnPc(outer[Len(outer)])
                /\ UNCHANGED <<err, outcomes>>
           ELSE Raise(r) /\ UNCHANGED frames
    /\ UNCHANGED <<lexVars, tokens, astVars, sect, rule, call, generated, doc, executed>>

\* lines 282-292: one iteration of the source-field loop
ParseRuleSourceIter ==
    /\ pc = "rule_sources"
    /\ LET p1 == SkipWhitespace(tokens, pos)
           token == Cur(tokens, p1)
           pv == ParseValue(tokens, p1)
       IN  IF token.type \in {"STRING", "IDENT"}
           THEN /\ rule' = [rule EXCEPT
                              !.source_fields = Append(rule.source_fields, pv.val)]
                /\ IF Cur(tokens, pv.pos).type = "COMMA"
                   THEN pos' = pv.pos + 1 /\ UNCHANGED pc
                   ELSE pos' = pv.pos /\ pc' = "rule_arrow"
           ELSE /\ pos' = p1
                /\ pc' = "rule_arrow"
                /\ UNCHANGED rule
    /\ UNCHANGED <<lexVars, tokens, err, astVars, sect, frames, call, outcomes,
                   generated, doc, executed>>

\* lines 294-306: the arrow and the target field
ParseRuleArrow ==
    /\ pc = "rule_arrow"
    /\ LET r == Expect(tokens, SkipWhitespace(tokens, pos), "ARROW")
           p1 == SkipWhitespace(tokens, r.pos)
           pv == ParseValue(tokens, p1)
       IN  IF ~r.ok
           THEN Raise(r) /\ UNCHANGED rule
           ELSE IF Cur(tokens, p1).type \in {"STRING", "IDENT"}
           THEN /\ pos' = pv.pos
                /\ rule' = [rule EXCEPT !.target_field = pv.val]
                /\ pc' = "rule_mods"
                /\ UNCHANGED <<err, outcomes>>
           ELSE /\ pos' = p1
                /\ pc' = "rule_mods"
                /\ UNCHANGED <<rule, err, outcomes>>
    /\ UNCHANGED <<lexVars, tokens, astVars, sect, frames, call, generated, doc, executed>>

Modifiers == {"TRANSFORM", "IF", "DEFAULT", "AS"}

NewCall == [func_name |-> <<>>, args |-> <<>>, parts |-> <<>>]

\* lines 308-326: one iteration of the modifier loop that finds a modifier,
\* up to the call of parse_function_call or parse_condition
ParseRuleModIter ==
    /\ pc = "rule_mods"
    /\ LET p1 == SkipWhitespace(tokens, pos)
           token == Cur(tokens, p1)
           pv == ParseValue(tokens, p1 + 1)
           eT == Expect(tokens, p1 + 1, "IDENT")
       IN  /\ token.type \in Modifiers
           /\ CASE token.type = "TRANSFORM" ->
                     /\ pos' = p1 + 1
                     /\ pc' = "func_head"
                     /\ UNCHANGED <<rule, call, err, outcomes>>
                [] token.type = "IF" ->
                     /\ pos' = p1 + 1
                     /\ call' = NewCall
                     /\ pc' = "cond_loop"
                     /\ UNCHANGED <<rule, err, outcomes>>
                [] token.type = "DEFAULT" ->
                     /\ pos' = pv.pos
                     /\ rule' = [rule EXCEPT !.default_value = pv.val]
                     /\ UNCHANGED <<pc, call, err, outcomes>>
                [] token.type = "AS" ->
                     IF eT.ok
                     THEN /\ pos' = eT.pos
                          /\ rule' = [rule EXCEPT
                                        !.data_type = PyStr(ToLower(eT.tok.value))]
                          /\ UNCHANGED <<pc, call, err, outcomes>>
                     ELSE Raise(eT) /\ UNCHANGED <<rule, call>>
    /\ UNCHANGED <<lexVars, tokens, astVars, sect, frames, generated, doc, executed>>

\* parse_rule returning the two fields the other way round
RuleResultSwapped ==
    [source_field  |-> IF rule.target_field \notin {PyNone, PyStr(<<>>)}
                       THEN rule.target_field.v ELSE <<>>,
     target_field  |-> IF rule.source_fields # <<>> THEN rule.source_fields[1].v
                       ELSE <<>>,
     transform     |-> rule.transform,
     condition     |-> rule.condition,
     default_value |-> rule.default_value,
     data_type     |-> rule.data_type]

\* lines 330-337: the dict parse_rule returns for a map rule
RuleResult ==
    [source_field  |-> IF rule.source_fields # <<>> THEN rule.source_fields[1].v
                       ELSE <<>>,
     target_field  |-> IF rule.target_field \notin {PyNone, PyStr(<<>>)}
                       THEN rule.target_field.v ELSE <<>>,
     transform     |-> rule.transform,
     condition     |-> rule.condition,
     default_value |-> rule.default_value,
     data_type     |-> rule.data_type]

\* lines 312-313, 327-337: no modifier follows; the rule is returned to the
\* calling loop, which appends it
ParseRuleEnd ==
    /\ pc = "rule_mods"
    /\ LET p1 == SkipWhitespace(tokens, pos)
       IN  /\ Cur(tokens, p1).type \notin Modifiers
           /\ pos' = p1
           /\ frames' = AppendRule(frames, RuleResult)
           /\ pc' = ReturnPc(frames[Len(frames)])
    /\ UNCHANGED <<lexVars, tokens, err, astVars, sect, rule, call, outcomes,
                   generated, doc, executed>>

\* lines 341-345
ParseFunctionHead ==
    /\ pc = "func_head"
    /\ LET eI == Expect(tokens, pos, "IDENT")
           eP == Expect(tokens, SkipWhitespace(tokens, eI.pos), "LPAREN")
           r == Chain(<<eI, eP>>)
       IN  IF r.ok
           THEN /\ pos' = r.pos
                /\ call' = [NewCall EXCEPT !.func_name = eI.tok.value]
                /\ pc' = "func_args"
                /\ UNCHANGED <<err, outcomes>>
           ELSE Raise(r) /\ UNCHANGED call
    /\ UNCHANGED <<lexVars, tokens, astVars, sect, frames, rule, generated, doc, executed>>

\* lines 346-353: one iteration of the argument loop
ParseFunctionArgIter ==
    /\ pc = "func_args"
    /\ Cur(tokens, pos) # NoneTok
    /\ Cur(tokens, pos).type # "RPAREN"
    /\ LET pv == ParseValue(tokens, pos)
       IN  /\ call' = IF pv.val # PyNone
                      THEN [call EXCEPT !.args = Append(call.args, pv.val)]
                      ELSE call
           /\ pos' = SkipComma(tokens, SkipWhitespace(tokens, pv.pos))
    /\ UNCHANGED <<lexVars, tokens, pc, err, astVars, sect, frames, rule,
                   outcomes, generated, doc, executed>>

\* line 357: f"{func_name}({', '.join(repr(a) for a in args)})"
FunctionCallText(func_name, args) ==
    func_name \o <<"(">>
    \o Join(<<",", " ">>, [i \in 1..Len(args) |-> Repr(args[i])]) \o <<")">>

\* lines 355-357 and 317
ParseFunctionEnd ==
    /\ pc = "func_args"
    /\ Cur(tokens, pos) = NoneTok \/ Cur(tokens, pos).type = "RPAREN"
    /\ LET r == Expect(tokens, pos, "RPAREN")
       IN  IF r.ok
           THEN /\ pos' = r.pos
                /\ rule' = [rule EXCEPT !.transform =
                              PyStr(FunctionCallText(call.func_name, call.args))]
                /\ pc' = "rule_mods"
                /\ UNCHANGED <<err, outcomes>>
           ELSE Raise(r) /\ UNCHANGED rule
    /\ UNCHANGED <<lexVars, tokens, astVars, sect, frames, call, generated, doc, executed>>

ConditionStop == {"RBRACE", "TRANSFORM", "DEFAULT", "AS"}

\* lines 362-366: one iteration of the loop of parse_condition
ParseConditionIter ==
    /\ pc = "cond_loop"
    /\ Cur(tokens, pos) # NoneTok
    /\ Cur(tokens, pos).type \notin ConditionStop
    /\ call' = IF Cur(tokens, pos).type \notin {"WS", "COMMENT"}
               THEN [call EXCEPT !.parts = Append(call.parts, Cur(tokens, pos).value)]
               ELSE call
    /\ pos' = pos + 1
    /\ UNCHANGED <<lexVars, tokens, pc, err, astVars, sect, frames, rule,
                   outcomes, generated, doc, executed>>

\* lines 367 and 320: ' '.join(parts)
ParseConditionEnd ==
    /\ pc = "cond_loop"
    /\ Cur(tokens, pos) = NoneTok \/ Cur(tokens, pos).type \in ConditionStop
    /\ rule' = [rule EXCEPT !.condition = PyStr(Join(<<" ">>, call.parts))]
    /\ pc' = "rule_mods"
    /\ UNCHANGED <<lexVars, tokens, pos, err, astVars, sect, frames, call,
                   outcomes, generated, doc, executed>>

\* no routine of a generated program has run
NoRun == [routine |-> "none"]

\* the state after Parser(text): tokens = [], pos = 0
InitParser ==
    /\ lpos = 0
    /\ ltokens = <<>>
    /\ tokens = <<>>
    /\ pos = 0
    /\ pc = "idle"
    /\ err = NoErr
    /\ name = <<>>
    /\ sources = <<>>
    /\ target = PyNone
    /\ component = PyNone
    /\ rules = <<>>
    /\ sect = <<>>
    /\ frames = <<>>
    /\ rule = <<>>
    /\ call = <<>>
    /\ outcomes = <<>>
    /\ generated = <<>>
    /\ executed = NoRun

InitLex ==
    /\ doc \in LexDocs
    /\ text = Concat(doc)
    /\ InitParser

NextLex == Parse \/ NewParser \/ LexStep \/ LexDone

\* The tokenizer alone, on every concatenation of at most MaxPieces pieces.
SpecLex == InitLex /\ [][NextLex]_vars

\* the definition the last parse() call returned
Mapping == outcomes[Len(outcomes)].mapping

\* a generator that stores the alias it reads: src.setdefault('alias',
\* 'source1') in place of src.get('alias', 'source1')
DefinitionAfterSetdefault(mapping) ==
    [mapping EXCEPT !.sources =
        [i \in 1..Len(mapping.sources) |->
            IF "alias" \in DOMAIN mapping.sources[i] THEN mapping.sources[i]
            ELSE [type |-> mapping.sources[i].type, alias |-> W_source1,
                  config |-> mapping.sources[i].config]]]

\* the definition self.mapping refers to (the dict parse() returned, line
\* 394) when generate() has returned or raised: generate and its helpers
\* (lines 396-881) read it with [], .get, .upper, .lower, .split and repr,
\* and store into lines, imports and locals only
DefinitionAfter(mapping) == mapping

\* CodeGenerator(mapping).generate() on the definition parse() returned, in
\* an interpreter run of its own.  The set of line 442 is a set of str,
\* whose iteration order follows the hashes of its elements, which differ
\* from one interpreter run to the next: any order.
GenerateCall ==
    /\ pc = "done"
    /\ executed = NoRun
    /\ Len(generated) < MaxGenerates
    /\ \E order \in Orders(UsedSrcTypes(Mapping)) :
         generated' = Append(generated, [run |-> Len(generated) + 1,
                                         order |-> order,
                                         out |-> Generate(Mapping, order)])
    /\ outcomes' = [outcomes EXCEPT ![Len(outcomes)].mapping = DefinitionAfter(@)]
    /\ UNCHANGED <<lexVars, tokens, pos, pc, err, astVars, subVars, doc, executed>>

\* generate() once more in the interpreter run of the call before: the set
\* of line 442 is built and iterated as it was then
GenerateAgain ==
    /\ pc = "done"
    /\ executed = NoRun
    /\ generated # <<>>
    /\ Len(generated) < MaxGenerates
    /\ LET last == generated[Len(generated)]
       IN  generated' = Append(generated, [run |-> last.run,
                                           order |-> last.order,
                                           out |-> Generate(Mapping, last.order)])
    /\ outcomes' = [outcomes EXCEPT ![Len(outcomes)].mapping = DefinitionAfter(@)]
    /\ UNCHANGED <<lexVars, tokens, pos, pc, err, astVars, subVars, doc, executed>>

\* the records the engine may answer the component's query with: a row
\* without the field a, and rows where a is NULL, text or a number
ItemPool == { <<>> } \cup
    { << <<T_a, v>> >> :
        v \in {PyNone, PyStr(<<>>), PyStr(<<" ">>), PyStr(<<"a", "b">>),
               PyStr(<<"1", "2">>), PyInt(0)} }

\* the pieces of text the generator copies from the definition into the
\* rule-application code: conditions, default literals, argument lists
Spellings(mapping) ==
    UNION { LET r == mapping.rules[i]
                transform == RuleGet(r, "transform")
                func_name == BeforeParen(transform.v)
            IN  (IF Truthy(RuleGet(r, "condition")) THEN {r.condition.v} ELSE {})
                \cup (IF RuleGet(r, "default_value") # PyNone
                      THEN {Repr(r.default_value)} ELSE {})
                \cup (IF Truthy(transform)
                      THEN {SubSeq(transform.v, Len(func_name) + 2,
                                   Len(transform.v) - 1)}
                      ELSE {})
            : i \in 1..Len(mapping.rules) }

\* The program a generate() call returned is loaded and its execute_mapping
\* called, by a Python that accepts the f-strings of lines 643 and 751
\* (3.12 on) or by one that does not.  The program run is the one of the
\* first call: what a later call returns is what the first call returns in
\* another behaviour.
ExecuteMappingCall ==
    /\ Len(generated) = 1
    /\ generated[Len(generated)].out.ok
    /\ executed = NoRun
    /\ \E pep701 \in BOOLEAN, item \in ItemPool :
         executed' = [routine |-> "execute_mapping", pep701 |-> pep701,
                      item |-> item,
                      run |-> ExecuteMapping(generated[Len(generated)].out.lines,
                                             pep701, <<item>>, Spellings(Mapping))]
    /\ UNCHANGED <<lexVars, tokens, pos, pc, err, astVars, subVars, outcomes,
                   generated, doc>>

Init ==
    /\ doc \in Docs
    /\ text = Render(doc)
    /\ InitParser

Next ==
    \/ Parse
    \/ NewParser
    \/ LexStep
    \/ LexDone
    \/ ParseMappingHead
    \/ ParseMappingIter
    \/ ParseMappingEnd
    \/ ParseSourceTargetHead
    \/ ParseSourceTargetIter
    \/ ParseNestedIter
    \/ ParseNestedEnd
    \/ ParseSourceTargetEnd
    \/ ParseRulesHead
    \/ ParseRulesIter
    \/ ParseRulesEnd
    \/ ParseLoopIter
    \/ ParseLoopEnd
    \/ ParseRuleSourceIter
    \/ ParseRuleArrow
    \/ ParseRuleModIter
    \/ ParseRuleEnd
    \/ ParseFunctionHead
    \/ ParseFunctionArgIter
    \/ ParseFunctionEnd
    \/ ParseConditionIter
    \/ ParseConditionEnd
    \/ GenerateCall
    \/ GenerateAgain
    \/ ExecuteMappingCall

\* The whole pipeline, on every document of Docs.
Spec == Init /\ [][Next]_vars

-----------------------------------------------------------------------------
(* transform_value of the generated program, called on its own             *)

\* the values a record of the program can hold for a field: None, strs
\* (empty, no numeral, numerals with blanks, sign or point, dates of the
\* three patterns, a day that does not exist), ints, floats, a bool
ValuePoolAtRun == {
    PyNone, PyStr(<<>>), PyStr(<<"a","b">>), PyStr(<<" ","7"," ">>), PyStr(<<"1","2">>), PyStr(<<"1",".","5">>),
    PyStr(<<"-","3">>), PyStr(<<"+",".","5">>), PyStr(<<"1",".","2",".","3">>),
    PyStr(<<"2","0","2","4","-","0","1","-","0","5">>), PyStr(<<"1","3","/","0","1","/","2","0","2","4">>),
    PyStr(<<"0","1","/","1","3","/","2","0","2","4">>), PyStr(<<"2","0","2","3","-","0","2","-","2","9">>),
    PyInt(0), PyInt(3), PyFloat(15, 1), PyFloat(0 - 123456789, 2), PyBool(TRUE) }

\* the names of the transforms of lines 464-482, and two names of none
FuncNamePool == { "upper", "lower", "trim", "int", "float", "str", "format_date",
                  "format_number", "substring", "loop", "" }

\* argument lists
ArgsPool == {
    <<>>, <<PyStr(<<"1">>)>>, <<PyInt(1), PyInt(3)>>, <<PyInt(0 - 2)>>,
    <<PyStr(<<"x">>), PyInt(1)>>, <<PyNone>>,
    <<PyStr(<<"D","D",".","M","M",".","Y","Y","Y","Y">>)>>,
    <<PyStr(<<"#",",","#","#","0",".","0","0">>)>>,
    <<PyStr(<<"9","9","9","9","9","9",".","9","9">>)>> }

InitTransform ==
    /\ doc \in [value : ValuePoolAtRun, func_name : FuncNamePool, args : ArgsPool]
    /\ text = <<>>
    /\ InitParser

\* transform_value(value, func_name, *args) is called once
TransformValueCall ==
    /\ executed = NoRun
    /\ executed' = [routine |-> "transform_value",
                    out |-> TransformValue(doc.value, doc.func_name, doc.args)]
    /\ UNCHANGED <<lexVars, tokens, pos, pc, err, astVars, subVars, outcomes,
                   generated, doc>>

NextTransform == TransformValueCall

\* transform_value alone, on every value, name and argument list of the pools.
SpecTransform == InitTransform /\ [][NextTransform]_vars

-----------------------------------------------------------------------------
(* The entry point of the generated program, run as a script              *)

\* the words of a command line after the program's name: aliases and
\* locations (every word can stand in either place)
ArgPool == { W_source1, <<"s">>, <<"t">>, <<"i">>, <<"o">> }
MaxArgs == 4
\* sys.argv[0]
ProgramName == <<"g", ".", "p", "y">>
\* sys.argv: the program's name, then at most MaxArgs words
ArgvPool ==
    UNION { { <<ProgramName>> \o w : w \in [1..n -> ArgPool] } : n \in 0..MaxArgs }

\* the sources of the definition the program was generated from: one source
\* without alias, one with alias s, two with aliases s and t
SourcesAtEntry ==
    { << [type |-> W_CSV, config |-> EmptyDict] >>,
      << [type |-> W_CSV, config |-> EmptyDict, alias |-> <<"s">>] >>,
      << [type |-> W_CSV, config |-> EmptyDict, alias |-> <<"s">>],
         [type |-> W_CSV, config |-> EmptyDict, alias |-> <<"t">>] >> }

\* lines 819-826: the dict inputs, as the sequence of its assignments; argv
\* is sys.argv (argv[k + 1] here is sys.argv[k]); at is the index in sys.argv
\* of the word stored as the value
EntryInputs(argv) ==
    IF Len(argv) = 3
    THEN << [key |-> W_source1, value |-> argv[2], at |-> 1] >>
    ELSE [j \in 1..((Len(argv) - 1) \div 2) |->
            [key |-> argv[2 * j], value |-> argv[2 * j + 1], at |-> 2 * j]]

\* inputs.get(alias) of line 712: the last assignment to the key, or None
InputsGet(inputs, alias) ==
    LET at == { k \in 1..Len(inputs) : inputs[k].key = alias }
    IN  IF at = {} THEN [found |-> FALSE]
        ELSE LET k == CHOOSE k \in at : \A o \in at : o <= k
             IN  [found |-> TRUE, value |-> inputs[k].value, at |-> inputs[k].at]

\* lines 816-831: the script, up to the call of execute_mapping; input_for
\* is what execute_mapping reads for each source (lines 707-712)
EntryPointRun(argv, srcs) ==
    IF Len(argv) >= 3
    THEN LET inputs == EntryInputs(argv)
         IN  [routine |-> "__main__", called |-> TRUE,
              output_path |-> argv[Len(argv)], inputs |-> inputs,
              input_for |-> [k \in 1..Len(srcs) |-> InputsGet(inputs, AliasOf(srcs[k]))]]
    ELSE [routine |-> "__main__", called |-> FALSE]

InitEntry ==
    /\ doc \in [argv : ArgvPool, sources : SourcesAtEntry]
    /\ text = <<>>
    /\ InitParser

\* python generated.py word ... word
EntryPointCall ==
    /\ executed = NoRun
    /\ executed' = EntryPointRun(doc.argv, doc.sources)
    /\ UNCHANGED <<lexVars, tokens, pos, pc, err, astVars, subVars, outcomes,
                   generated, doc>>

NextEntry == EntryPointCall

\* the entry point alone, on every command line of ArgvPool.
SpecEntry == InitEntry /\ [][NextEntry]_vars

-----------------------------------------------------------------------------
(* Documents spelt twice: as described, and with their keywords in         *)
(* another letter case                                                     *)

\* the keywords of lines 24-34 whose patterns end in \b: the section and
\* statement keywords and the format keywords
CaseKeywords == { T_MAPPING, T_SOURCE, T_TARGET, T_RULES, ToUpper(T_map), T_AS,
                  W_XML, W_CSV, W_DB, W_EDI, W_JSON }

\* a word in the letter case how
Recased(w, how) ==
    CASE how = "lower" -> ToLower(w)
      [] how = "upper" -> ToUpper(w)
      [] how = "title" -> Capitalize(w)

\* the words of a document, every word that is a keyword in some letter
\* case spelt in the letter case how
Respelt(ws, how) ==
    [i \in 1..Len(ws) |-> IF ToUpper(ws[i]) \in CaseKeywords THEN Recased(ws[i], how)
                          ELSE ws[i]]

\* the documents of SectionDocs and RuleDocs and the document with every
\* construct, each with a letter case for its second spelling
CaseDocs ==
    { [d EXCEPT !.damage = [op |-> "respell", at |-> 0, how |-> h]] :
        d \in SectionDocs \cup RuleDocs \cup {FullDoc(NoDamage)},
        h \in {"lower", "upper", "title"} }

\* the second spelling of the document
CaseWords(d) == Respelt(DocWords(d), d.damage.how)

InitCase ==
    /\ doc \in CaseDocs
    /\ text = Join(<<" ">>, DocWords(doc))
    /\ InitParser

\* Parser.__init__, lines 102-105: a Parser instance for the second spelling
ParserOfRespelt ==
    /\ pc \in {"done", "error"}
    /\ Len(outcomes) < MaxParses
    /\ text = Join(<<" ">>, DocWords(doc))
    /\ text' = Join(<<" ">>, CaseWords(doc))
    /\ tokens' = <<>>
    /\ pos' = 0
    /\ pc' = "idle"
    /\ UNCHANGED <<lpos, ltokens, err, astVars, subVars, outcomes, generated, doc, executed>>

NextCase ==
    \/ Parse
    \/ ParserOfRespelt
    \/ LexStep
    \/ LexDone
    \/ ParseMappingHead
    \/ ParseMappingIter
    \/ ParseMappingEnd
    \/ ParseSourceTargetHead
    \/ ParseSourceTargetIter
    \/ ParseNestedIter
    \/ ParseNestedEnd
    \/ ParseSourceTargetEnd
    \/ ParseRulesHead
    \/ ParseRulesIter
    \/ ParseRulesEnd
    \/ ParseLoopIter
    \/ ParseLoopEnd
    \/ ParseRuleSourceIter
    \/ ParseRuleArrow
    \/ ParseRuleModIter
    \/ ParseRuleEnd
    \/ ParseFunctionHead
    \/ ParseFunctionArgIter
    \/ ParseFunctionEnd
    \/ ParseConditionIter
    \/ ParseConditionEnd

\* the parser on a document and then on its second spelling.
SpecCase == InitCase /\ [][NextCase]_vars

-----------------------------------------------------------------------------
(* SimpleMapper (simple_mapper.py): parse_mapping, called one or more times *)
(* on one instance.  The instance is the record of its attributes; the     *)
(* regular expressions are searched as re.search and re.match do.          *)

\* the number of parse_mapping calls on one SimpleMapper instance
MaxCalls == 2

\* the head of a text: none, or MAPPING and a name
NameParts == {
    <<>>,
    <<"M", "A", "P", "P", "I", "N", "G", " ", "m", " ">>,
    <<"m", "a", "p", "p", "i", "n", "g", " ", " ", "x", "1", " ">> }
\* the SOURCE section of a text: none, XML, or DB in lower case
SourceParts == {
    <<>>,
    <<"S", "O", "U", "R", "C", "E", " ", "X", "M", "L", " ", "{", " ", "}", " ">>,
    <<"s", "o", "u", "r", "c", "e", " ", "d", "b", " ", "{", " ", "}", " ">> }
\* the TARGET section of a text: none, or EDI
TargetParts == {
    <<>>,
    <<"T", "A", "R", "G", "E", "T", " ", "E", "D", "I", " ", "{", " ", "}", " ">> }
\* the RULES block of a text: none, one rule on a line of its own, or two
\* rules on two lines written without blanks
RulesParts == {
    <<>>,
    <<"R", "U", "L", "E", "S", " ", "{", "\n", "m", "a", "p", " ", "a", " ", "-", ">", " ", "b", "\n", "}", " ">>,
    <<"r", "u", "l", "e", "s", "{", " ", "m", "a", "p", " ", "a", "-", ">", "b", "\n", " ", "M", "A", "P", " ", "c", " ", "-", ">", " ", "d", " ", "}">> }

\* the texts parse_mapping is called on
TextPool ==
    { n \o s \o g \o r : n \in NameParts, s \in SourceParts, g \in TargetParts,
                        r \in RulesParts }

\* whether the word stands at offset p of t in any letter case (re.IGNORECASE)
WordAt(t, p, word) ==
    /\ p + Len(word) <= Len(t)
    /\ ToUpper(SubSeq(t, p + 1, p + Len(word))) = ToUpper(word)

\* re.search(r'MAPPING\s+(\w+)', text, re.IGNORECASE): group 1 of the leftmost
\* match, or "unnamed" (line 21)
NameOf(t) ==
    LET after(p) == p + Len(T_MAPPING) + RunLen(t, p + Len(T_MAPPING), SpaceChar)
        found == { p \in 0..Len(t) :
                     /\ WordAt(t, p, T_MAPPING)
                     /\ RunLen(t, p + Len(T_MAPPING), SpaceChar) >= 1
                     /\ RunLen(t, after(p), WordChar) >= 1 }
    IN  IF found = {} THEN <<"u", "n", "n", "a", "m", "e", "d">>
        ELSE SubSeq(t, after(Min(found)) + 1,
                    after(Min(found)) + RunLen(t, after(Min(found)), WordChar))

\* the alternatives of (CSV|XML|DB|EDI)
TypeWords == <<W_CSV, W_XML, W_DB, W_EDI>>

\* re.search(keyword + r'\s+(CSV|XML|DB|EDI)', text, re.IGNORECASE): group 1
\* of the leftmost match in upper case, or the value held before (lines
\* 24-31)
TypeOf(t, keyword, held) ==
    LET after(p) == p + Len(keyword) + RunLen(t, p + Len(keyword), SpaceChar)
        found == { p \in 0..Len(t) :
                     /\ WordAt(t, p, keyword)
                     /\ RunLen(t, p + Len(keyword), SpaceChar) >= 1
                     /\ \E i \in 1..Len(TypeWords) : WordAt(t, after(p), TypeWords[i]) }
    IN  IF found = {} THEN held
        ELSE TypeWords[Min({ i \in 1..Len(TypeWords) :
                               WordAt(t, after(Min(found)), TypeWords[i]) })]

\* re.search(r'RULES\s*\{([^}]*)\}', text, re.IGNORECASE | re.DOTALL): group
\* 1 of the leftmost match, or "" (lines 34-35)
RulesContent(t) ==
    LET open(p) == p + Len(T_RULES) + RunLen(t, p + Len(T_RULES), SpaceChar)
        found == { p \in 0..Len(t) :
                     /\ WordAt(t, p, T_RULES)
                     /\ LitAt(t, open(p), <<"{">>)
                     /\ \E k \in (open(p) + 2)..Len(t) : t[k] = "}" }
        from == open(Min(found)) + 1
    IN  IF found = {} THEN <<>>
        ELSE SubSeq(t, from + 1, Min({ k \in (from + 1)..Len(t) : t[k] = "}" }) - 1)

RECURSIVE SplitLines(_)
\* rules_content.split('\n')
SplitLines(s) ==
    LET breaks == { k \in 1..Len(s) : s[k] = "\n" }
    IN  IF breaks = {} THEN <<s>>
        ELSE <<SubSeq(s, 1, Min(breaks) - 1)>>
             \o SplitLines(SubSeq(s, Min(breaks) + 1, Len(s)))

\* re.match(r'\s*map\s+(\w+)\s*->\s*(\w+)', line, re.IGNORECASE), lines 41-46:
\* the rule of the line, if the line starts with one
MapMatch(line) ==
    LET word == RunLen(line, 0, SpaceChar)
        src == word + Len(T_map) + RunLen(line, word + Len(T_map), SpaceChar)
        arrow == src + RunLen(line, src, WordChar)
                 + RunLen(line, src + RunLen(line, src, WordChar), SpaceChar)
        tgt == arrow + 2 + RunLen(line, arrow + 2, SpaceChar)
    IN  IF /\ WordAt(line, word, T_map)
           /\ src > word + Len(T_map)
           /\ RunLen(line, src, WordChar) >= 1
           /\ LitAt(line, arrow, <<"-", ">">>)
           /\ RunLen(line, tgt, WordChar) >= 1
        THEN << [source |-> SubSeq(line, src + 1, src + RunLen(line, src, WordChar)),
                 target |-> SubSeq(line, tgt + 1, tgt + RunLen(line, tgt, WordChar))] >>
        ELSE <<>>

\* lines 38-46: the rules of the lines of the RULES block, in order
RulesOf(content) ==
    Flatten([i \in 1..Len(SplitLines(content)) |-> MapMatch(SplitLines(content)[i])])

\* SimpleMapper(), lines 12-15
NewMapper == [routine |-> "SimpleMapper", source_type |-> W_CSV,
              target_type |-> W_CSV, rules |-> <<>>, calls |-> <<>>]

\* the dict parse_mapping(t) returns on an instance with the attributes of
\* mapper, lines 48-53
ReturnedMapping(mapper, t) ==
    [name |-> NameOf(t),
     source_type |-> TypeOf(t, T_SOURCE, mapper.source_type),
     target_type |-> TypeOf(t, T_TARGET, mapper.target_type),
     rules |-> RulesOf(RulesContent(t))]

InitSimple ==
    /\ doc = <<>>
    /\ text = <<>>
    /\ InitParser

\* mapper = SimpleMapper()
SimpleMapperNew ==
    /\ executed = NoRun
    /\ executed' = NewMapper
    /\ UNCHANGED <<lexVars, tokens, pos, pc, err, astVars, subVars, outcomes,
                   generated, doc>>

\* mapper.parse_mapping(t): the attributes it stores (lines 26, 31, 38) and
\* the dict it returns
SimpleParseMapping ==
    /\ executed.routine = "SimpleMapper"
    /\ Len(executed.calls) < MaxCalls
    /\ \E t \in TextPool :
         LET ret == ReturnedMapping(executed, t)
         IN  executed' = [executed EXCEPT
                            !.source_type = ret.source_type,
                            !.target_type = ret.target_type,
                            !.rules = ret.rules,
                            !.calls = Append(@, [text |-> t, returned |-> ret])]
    /\ UNCHANGED <<lexVars, tokens, pos, pc, err, astVars, subVars, outcomes,
                   generated, doc>>

NextSimple == SimpleMapperNew \/ SimpleParseMapping

\* SimpleMapper alone: at most MaxCalls parse_mapping calls on one instance.
SpecSimple == InitSimple /\ [][NextSimple]_vars

-----------------------------------------------------------------------------
(* Properties                                                              *)

\* the outcome of the last parse() call
LastOutcome == outcomes[Len(outcomes)]
\* the statement of a document with one statement
TheStmt == doc.stmts[1]
IsPath(f) == InSeq("/", f)

\* C1: generate() never raises on a mapping definition parse() returned:
\* every generate() call on the definition of an accepted document returns
\* a program text.
C1_GenerateNeverRaises ==
    \A i \in 1..Len(generated) : generated[i].out.ok

\* the modifiers of a statement
StmtMods(st) == IF st.k = "map" THEN st.mods ELSE <<>>
\* a config key or a DEFAULT of the document has no value
HasMissingValue(d) ==
    \/ \E i \in 1..Len(d.sources) : \E j \in 1..Len(d.sources[i].config) :
         d.sources[i].config[j].val = Missing
    \/ \E i \in 1..Len(d.stmts) : \E j \in 1..Len(StmtMods(d.stmts[i])) :
         StmtMods(d.stmts[i])[j] = Default(Missing)
\* a parse error that names the expected token kind and the token found
IsParseError(o) ==
    /\ ~o.ok
    /\ o.err.kind = "expect"
    /\ o.err = ExpectError(o.err.expected, o.err.got)

\* C2: a missing value is a structural mismatch: a document in which a
\* config key or a DEFAULT has no value makes every parse() call fail with
\* a parse error that names the expected token kind and the token found,
\* and no mapping definition is returned.
C2_MismatchIsParseError ==
    HasMissingValue(doc) => \A i \in 1..Len(outcomes) : IsParseError(outcomes[i])

RECURSIVE FirstStray(_, _)
\* The offset, from offset p on, of the first character of t that starts no
\* token and is inside no string literal and no comment: a @, or a quote
\* that nothing closes.  Len(t): there is none.
FirstStray(t, p) ==
    IF p >= Len(t) THEN Len(t)
    ELSE LET c == t[p + 1]
             closing == {k \in (p + 2)..Len(t) : t[k] = "\""}
             lineEnds == {k \in (p + 1)..Len(t) : t[k] = "\n"}
         IN  CASE c = "@"  -> p
               [] c = "\"" -> IF closing = {} THEN p
                              ELSE FirstStray(t, Min(closing))
               [] c = "#"  -> IF lineEnds = {} THEN Len(t)
                              ELSE FirstStray(t, Min(lineEnds))
               [] OTHER    -> FirstStray(t, p + 1)

\* C3: tokenize() is all-or-nothing.  It fails exactly when the text has a
\* character that starts no token outside every string literal and comment,
\* the error carries the offset of the first such character and the
\* character, and no token sequence is stored; a character inside a string
\* literal or a comment never makes it fail.
C3_LexErrorIsExact ==
    LET stray == FirstStray(text, 0)
    IN  /\ pc = "error" =>
             /\ stray < Len(text)
             /\ err = LexError(stray, text[stray + 1])
             /\ tokens = <<>>
             /\ \A i \in 1..Len(outcomes) : outcomes[i] = [ok |-> FALSE, err |-> err]
        /\ pc = "mapping_head" => stray = Len(text) /\ err = NoErr

\* C3 witness: tokenize() has failed on a @ that follows a @ inside a string
\* literal or a comment.
C3_Witness ==
    /\ pc = "error"
    /\ err.kind = "lex"
    /\ err.char = "@"
    /\ \E i \in 1..err.position : text[i] = "@"

\* a RULES block of map statements, each with its target, and no loop
IsMapOnly(d) ==
    /\ d.stmts # <<>>
    /\ \A i \in 1..Len(d.stmts) : d.stmts[i].k = "map" /\ d.stmts[i].tgt # <<>>
\* a line that assigns a field of the output item
IsAssignment(line) ==
    /\ Len(line) >= 4
    /\ line[2] \in {"output_item[\"", "    output_item[\""}
\* the fields the field-assignment sites of a program assign, in order
AssignmentTargets(lines) ==
    LET sites == SelectSeq(lines, IsAssignment)
    IN  [i \in 1..Len(sites) |-> sites[i][3]]

\* C4: rule-count preservation.  For an accepted document whose RULES block
\* holds N map statements and no loop, the parsed rule list has N entries
\* and the generated program has N field-assignment sites, one per
\* statement, in the order of the statements.
C4_RuleCountPreserved ==
    (pc = "done" /\ doc \in RuleDocs /\ IsMapOnly(doc)) =>
        /\ Len(LastOutcome.mapping.rules) = Len(doc.stmts)
        /\ \A i \in 1..Len(generated) :
             generated[i].out.ok =>
               AssignmentTargets(generated[i].out.lines)
                 = [j \in 1..Len(doc.stmts) |-> Str(doc.stmts[j].tgt)]

\* the token stream of the document's text is there
Tokenized == pc \notin {"idle", "lex"} /\ ~(pc = "error" /\ err.kind = "lex")
\* the documents of NameDocs that differ in the fields of their rule
FieldDocs == {d \in NameDocs : d.name = T_m}

\* C5: path-identifier integrity.  A field path of identifier segments
\* joined by slashes is one IDENT token whose lexeme is the whole path,
\* whatever its first segment.
C5_PathIsOneIdent ==
    (Tokenized /\ doc \in FieldDocs) =>
        \A f \in {TheStmt.src, TheStmt.tgt} :
            IsPath(f) => \E i \in 1..Len(tokens) : tokens[i] = Token("IDENT", f)

\* C6: a word that begins with the letters of a keyword is one IDENT: a
\* document that has such a word as its mapping name or as a field name
\* parses, to a definition with that name and those fields.
C6_KeywordPrefixIsIdent ==
    (pc \in {"done", "error"} /\ doc \in NameDocs
        /\ ~IsPath(TheStmt.src) /\ ~IsPath(TheStmt.tgt)) =>
        /\ LastOutcome.ok
        /\ LastOutcome.mapping.name = doc.name
        /\ Len(LastOutcome.mapping.rules) = 1
        /\ LastOutcome.mapping.rules[1].source_field = TheStmt.src
        /\ LastOutcome.mapping.rules[1].target_field = TheStmt.tgt

\* the number a numeral stands for
NumberOf(s) == IF InSeq(".", s) THEN FloatOf(s) ELSE PyInt(IntOf(s))
\* the value the document of ValueDocs gives its config key and its DEFAULT
TheValue == doc.sources[1].config[1].val

\* C7: numeric literals are parsed as numbers.  A numeral as a config value
\* or as a DEFAULT value yields the integer it stands for when it has no
\* decimal point and the floating value when it has one, a leading minus
\* being part of it.
C7_NumeralsAreNumbers ==
    (pc \in {"done", "error"} /\ doc \in ValueDocs /\ TheValue.q = "bare") =>
        /\ LastOutcome.ok
        /\ DictGet(LastOutcome.mapping.sources[1].config, T_file, PyNone)
             = NumberOf(TheValue.v)
        /\ LastOutcome.mapping.rules[1].default_value = NumberOf(TheValue.v)

\* C8: generation is a pure function of the mapping definition: any two
\* generate() calls on one definition return the same.
C8_GenerationIsPure ==
    \A i, j \in 1..Len(generated) : generated[i].out = generated[j].out

\* C9: parse determinism.  When a parse() call on a text returns a mapping
\* definition, every other parse() call on that text, on the same Parser
\* instance or on another, returns an equal one.
C9_ParseDeterminism ==
    \A i, j \in 1..Len(outcomes) : outcomes[i].ok => outcomes[j] = outcomes[i]

\* C9 witness: two parse() calls have returned a definition with a source
\* and a rule.
C9_Witness ==
    /\ Len(outcomes) = 2
    /\ outcomes[1].ok /\ outcomes[2].ok
    /\ outcomes[2].mapping.rules # <<>>
    /\ doc.sources # <<>>

\* C10: after a successful parse the aliases of the sources of the mapping
\* definition, source1 for a source declared without AS, are pairwise
\* distinct.
C10_AliasesDistinct ==
    pc = "done" =>
        \A i, j \in 1..Len(LastOutcome.mapping.sources) :
            i # j => AliasOf(LastOutcome.mapping.sources[i])
                       # AliasOf(LastOutcome.mapping.sources[j])

\* the map statements of a RULES block that are in no loop
TopMaps(d) == SelectSeq(d.stmts, LAMBDA st : st.k = "map")
\* a RULES block with a loop statement, of statements without IF
HasLoop(d) ==
    /\ \E i \in 1..Len(d.stmts) : d.stmts[i].k = "loop"
    /\ \A i \in 1..Len(d.stmts) : \A j \in 1..Len(StmtMods(d.stmts[i])) :
         StmtMods(d.stmts[i])[j].m # "IF"

\* C11: a LOOP rule adds no field-assignment site.  For an accepted document
\* whose RULES block has loop statements, the field-assignment sites of the
\* generated program are those of the map statements outside the loops:
\* neither a loop nor a rule of its body adds one.
C11_LoopAddsNoAssignment ==
    (pc = "done" /\ doc \in RuleDocs /\ HasLoop(doc)) =>
        \A i \in 1..Len(generated) :
            generated[i].out.ok =>
                AssignmentTargets(generated[i].out.lines)
                  = [j \in 1..Len(TopMaps(doc)) |-> Str(TopMaps(doc)[j].tgt)]

\* the value the parser stores for a literal of a document
LiteralValue(l) ==
    CASE l.q = "str"   -> PyStr(l.v)
      [] l.q = "bare"  -> PyStr(l.v)
      [] l.q = "block" -> PyDict(<< <<l.k, PyStr(l.v)>> >>)
      [] OTHER         -> PyNone
\* a parsed section is the section a document declares: its format, its
\* alias if it has one, and its config entries
IsDeclared(parsed, sec) ==
    /\ parsed.type = ToUpper(sec.type)
    /\ ("alias" \in DOMAIN parsed) = (sec.alias # <<>>)
    /\ sec.alias # <<>> => parsed.alias = sec.alias
    /\ Len(parsed.config) = Len(sec.config)
    /\ \A k \in 1..Len(sec.config) :
         parsed.config[k] = <<sec.config[k].key, LiteralValue(sec.config[k].val)>>

\* C12: defaulting.  A document that leaves out the SOURCE block, the TARGET
\* block or both parses; a section left out is a CSV spec with empty
\* config (the source with alias source1), and a section that is there is
\* the one declared.
C12_Defaulting ==
    (pc \in {"done", "error"} /\ doc \in SectionDocs) =>
        /\ LastOutcome.ok
        /\ IF doc.sources = <<>>
           THEN LastOutcome.mapping.sources
                  = <<[type |-> W_CSV, alias |-> W_source1, config |-> EmptyDict]>>
           ELSE /\ Len(LastOutcome.mapping.sources) = Len(doc.sources)
                /\ \A i \in 1..Len(doc.sources) :
                     IsDeclared(LastOutcome.mapping.sources[i], doc.sources[i])
        /\ IF doc.target = NoSection
           THEN LastOutcome.mapping.target = [type |-> W_CSV, config |-> EmptyDict]
           ELSE IsDeclared(LastOutcome.mapping.target, doc.target)

\* C12 witness: a document without SOURCE and without TARGET has parsed, to
\* a definition with the CSV source source1 and a CSV target.
C12_Witness ==
    /\ pc = "done"
    /\ doc \in SectionDocs
    /\ doc.sources = <<>> /\ doc.target = NoSection
    /\ AliasOf(LastOutcome.mapping.sources[1]) = W_source1
    /\ LastOutcome.mapping.target.type = W_CSV

\* C13: for a document with one SOURCE without AS, one TARGET and map
\* statements without modifiers, the parsed definition has the declared
\* name, one source of the declared format and config whose alias reads
\* source1, one target of the declared format, and one rule per map
\* statement with the declared fields and no transform, condition, default
\* or type.
C13_PlainDocument ==
    (pc \in {"done", "error"} /\ doc \in PlainDocs) =>
        /\ LastOutcome.ok
        /\ LastOutcome.mapping.name = doc.name
        /\ Len(LastOutcome.mapping.sources) = 1
        /\ IsDeclared(LastOutcome.mapping.sources[1], doc.sources[1])
        /\ AliasOf(LastOutcome.mapping.sources[1]) = W_source1
        /\ IsDeclared(LastOutcome.mapping.target, doc.target)
        /\ Len(LastOutcome.mapping.rules) = Len(doc.stmts)
        /\ \A i \in 1..Len(doc.stmts) :
             LastOutcome.mapping.rules[i]
               = [source_field |-> doc.stmts[i].src,
                  target_field |-> doc.stmts[i].tgt,
                  transform |-> PyNone, condition |-> PyNone,
                  default_value |-> PyNone, data_type |-> PyNone]

\* C13 witness: a document with a csv source with a config entry, a target
\* and two map statements has parsed.
C13_Witness ==
    /\ pc = "done"
    /\ doc \in PlainDocs
    /\ doc.sources[1].config # <<>>
    /\ Len(doc.stmts) = 2
    /\ Len(LastOutcome.mapping.rules) = 2

\* the IF modifiers of a statement, in order
IfMods(st) == SelectSeq(st.mods, LAMBDA mod : mod.m = "IF")
\* a line that opens a guard on a raw condition text
IsGuard(line) == Len(line) = 4 /\ line[2] = "if " /\ line[4] = ":"
\* the field-assignment sites of a program, each with whether it stands
\* under a guard and the condition text of the guard
GuardedSites(lines) ==
    LET at == SelectSeq([k \in 1..Len(lines) |-> k],
                        LAMBDA k : IsAssignment(lines[k]))
        Under(k) == /\ k > 1
                    /\ IsGuard(lines[k - 1])
                    /\ lines[k][1] = lines[k - 1][1]
                    /\ lines[k][2] = "    output_item[\""
    IN  [i \in 1..Len(at) |->
           [target  |-> lines[at[i]][3],
            guarded |-> Under(at[i]),
            guard   |-> IF Under(at[i]) THEN lines[at[i] - 1][3] ELSE ""]]
\* a line that opens an else branch
IsElse(line) == \E k \in 1..Len(line) : line[k] \in {"else:", "    else:"}

\* C16: for a map rule with IF the stored condition is the words that
\* follow IF up to the next modifier keyword or the closing brace, joined
\* by single spaces, and the generated program assigns the target field at
\* one site, under a guard on that text and with no else branch after it.
C16_ConditionGuardsAssignment ==
    (pc = "done" /\ doc \in CondDocs) =>
        LET ifs == IfMods(TheStmt)
            cond == Join(<<" ">>, ifs[Len(ifs)].cond)
        IN  /\ Len(LastOutcome.mapping.rules) = 1
            /\ LastOutcome.mapping.rules[1].condition = PyStr(cond)
            /\ \A i \in 1..Len(generated) :
                 generated[i].out.ok =>
                   /\ GuardedSites(generated[i].out.lines)
                        = <<[target |-> Str(TheStmt.tgt), guarded |-> TRUE,
                             guard |-> Str(cond)]>>
                   /\ \A k \in 1..Len(generated[i].out.lines) :
                        (k > 1 /\ IsAssignment(generated[i].out.lines[k - 1]))
                          => ~IsElse(generated[i].out.lines[k])

\* the names transform_value knows
KnownTransforms == { "upper", "lower", "trim", "int", "float", "str",
                     "format_date", "format_number", "substring" }

ModsOf(st, kind) == SelectSeq(st.mods, LAMBDA mod : mod.m = kind)
\* a run of execute_mapping by a Python that loads the program
Ran == executed.routine = "execute_mapping" /\ executed.pep701
\* the field a of the record the run was driven with, None when absent
Fetched == ItemGet(executed.item, "a")
\* the coercion each type name of AS stands for
CoercionOf(ty) ==
    CASE ty \in {W_integer, W_int}  -> "int"
      [] ty \in {W_string, W_str}   -> "str"
      [] ty \in {W_decimal, W_float} -> "float"
      [] ty \in {W_boolean, W_bool} -> "bool"
\* the run produced one record whose only field b holds v
Produced(v) == executed.run.out = Returned(<< << <<"b", v>> >> >>)

\* C14: for a map rule with TRANSFORM and AS, in either order, the value is
\* the coercion of the transform's result, the transform being applied to
\* the fetched and defaulted value: the field is None when the transform's
\* result is None, the coerced result when the coercion returns, and the
\* run raises what the coercion raises.
C14_TransformThenCoerce ==
    (Ran /\ doc \in ModDocs /\ ModsOf(TheStmt, "TRANSFORM") # <<>>
         /\ ModsOf(TheStmt, "AS") # <<>>) =>
        LET defaulted == IF ModsOf(TheStmt, "DEFAULT") # <<>> /\ Fetched = PyNone
                         THEN PyStr(ModsOf(TheStmt, "DEFAULT")[1].val.v)
                         ELSE Fetched
            transformed == TransformValue(defaulted,
                                          Str(ModsOf(TheStmt, "TRANSFORM")[1].f), <<>>)
            coerced == Coerce(CoercionOf(ModsOf(TheStmt, "AS")[1].ty), transformed.v)
        IN  /\ transformed.k = "return"
            /\ IF transformed.v = PyNone THEN Produced(PyNone)
               ELSE IF coerced.k = "raise"
               THEN executed.run.out = Raised(coerced.exc)
               ELSE Produced(coerced.v)

\* C14 witness: AS boolean written before TRANSFORM trim(), run on a record
\* whose a is one blank: the field is False, the coercion of the trimmed
\* text, where the coercion of the blank would be True.
C14_Witness ==
    /\ Ran
    /\ doc \in ModDocs
    /\ TheStmt.mods = <<As(W_boolean), Transform(T_trim, <<>>)>>
    /\ Fetched = PyStr(<<" ">>)
    /\ Produced(PyBool(FALSE))

\* the value a rule with the modifiers of TheStmt is to give for the
\* fetched and defaulted value v: transformed if TRANSFORM is there, then
\* coerced if AS is there
Modified(v) ==
    LET transformed == IF ModsOf(TheStmt, "TRANSFORM") # <<>>
                       THEN TransformValue(v, Str(ModsOf(TheStmt, "TRANSFORM")[1].f),
                                           <<>>).v
                       ELSE v
    IN  IF ModsOf(TheStmt, "AS") # <<>> /\ transformed # PyNone
        THEN Coerce(CoercionOf(ModsOf(TheStmt, "AS")[1].ty), transformed)
        ELSE Returned(transformed)

\* C15: for a map rule with DEFAULT the program is Python and the value
\* assigned is made from the default exactly when the fetched value is
\* None, from the fetched value otherwise, also when that value is the
\* empty text or 0, with or without a condition.
C15_DefaultOnMissing ==
    (Ran /\ doc \in ModDocs \cup CondDocs /\ ModsOf(TheStmt, "DEFAULT") # <<>>) =>
        LET defaulted == IF Fetched = PyNone
                         THEN PyStr(ModsOf(TheStmt, "DEFAULT")[1].val.v)
                         ELSE Fetched
        IN  /\ executed.run.out # Raised("SyntaxError")
            /\ executed.run.out.k = "return" =>
                 \/ executed.run.out.v = << <<>> >>
                 \/ /\ Modified(defaulted).k = "return"
                    /\ Produced(Modified(defaulted).v)

\* C19: a failing coercion of a recognised AS type is swallowed.  For a
\* map rule with AS and no DEFAULT every run that loads returns one record:
\* its field is None when the value to coerce is None, the coerced value
\* when the coercion returns, and the uncoerced value when it raises.
C19_CoercionSwallowed ==
    (Ran /\ doc \in ModDocs /\ ModsOf(TheStmt, "AS") # <<>>
         /\ ModsOf(TheStmt, "DEFAULT") = <<>>) =>
        LET uncoerced == IF ModsOf(TheStmt, "TRANSFORM") # <<>>
                         THEN TransformValue(Fetched,
                                  Str(ModsOf(TheStmt, "TRANSFORM")[1].f), <<>>).v
                         ELSE Fetched
            coerced == Coerce(CoercionOf(ModsOf(TheStmt, "AS")[1].ty), uncoerced)
        IN  IF uncoerced = PyNone THEN Produced(PyNone)
            ELSE IF coerced.k = "raise" THEN Produced(uncoerced)
            ELSE Produced(coerced.v)

\* the format of a section is none of the known ones of its kind
UnknownSource(sec) == ToUpper(sec.type) \notin {W_XML, W_CSV, W_DB, W_EDI, W_JSON}
UnknownTarget(sec) == ToUpper(sec.type) \notin {W_XML, W_CSV, W_DB, W_EDI, W_JSON}
\* the steps of one kind of the run
StepsOf(kind) == SelectSeq(executed.run.steps, LAMBDA st : st.step = kind)

\* C20: with a source or a target of an unknown format the program is inert
\* and does not crash.  Every run that loads returns; the read of an
\* unknown source is accepted by a stub and gives no record, the write to an
\* unknown target is accepted by a stub.
C20_UnknownFormatInert ==
    (Ran /\ doc \in FormatDocs) =>
        /\ executed.run.out.k = "return"
        /\ \A i \in 1..Len(doc.sources) :
             UnknownSource(doc.sources[i]) =>
               /\ i <= Len(StepsOf("read"))
               /\ StepsOf("read")[i].outcome = [k |-> "return", v |-> <<>>,
                                                stub |-> TRUE]
        /\ (doc.target # NoSection /\ UnknownTarget(doc.target)) =>
               /\ StepsOf("write") # <<>>
               /\ StepsOf("write")[1].outcome.k = "return"
               /\ StepsOf("write")[1].outcome.stub

\* the kinds of the steps of the run, in order
StepKinds == [i \in 1..Len(executed.run.steps) |-> executed.run.steps[i].step]
\* n times the step kind
Times(n, kind) == [i \in 1..n |-> kind]
\* the aliases of the sources of the definition, in order and as a set
Aliases == [i \in 1..Len(Mapping.sources) |-> Str(AliasOf(Mapping.sources[i]))]
AliasSet == {Aliases[i] : i \in 1..Len(Aliases)}

\* C17: with a COMPONENT a run that returns has read every declared source,
\* then created one table per source alias, then executed the query, then
\* applied the rules to the rows of the query's answer; without a COMPONENT
\* a program is generated and rule application is driven by the records of
\* the first declared source.
C17_DrivingRecords ==
    /\ (Ran /\ executed.run.out.k = "return") =>
         /\ StepKinds = Times(Len(Aliases), "read")
                        \o Times(Cardinality(AliasSet), "table")
                        \o <<"query", "rules", "write">>
         /\ [i \in 1..Len(Aliases) |-> StepsOf("read")[i].what] = Aliases
         /\ {StepsOf("table")[i].what : i \in 1..Len(StepsOf("table"))} = AliasSet
         /\ StepsOf("query")[1].outcome.v = <<executed.item>>
         /\ StepsOf("rules")[1].outcome
              = RunRules(RuleSection(generated[Len(generated)].out.lines), 1,
                         executed.item, <<>>, Spellings(Mapping))
    /\ (pc = "done" /\ LastOutcome.ok /\ Mapping.component = PyNone) =>
         /\ \A i \in 1..Len(generated) : generated[i].out.ok
         /\ executed.routine = "execute_mapping" =>
              \A i \in 1..Len(executed.run.steps) :
                executed.run.steps[i].step \in {"query", "source_items"} =>
                  executed.run.steps[i]
                    = Step("source_items", Aliases[1], Returned(FileRecords))

\* C21: when the script is given at least two words, the last word is the
\* output location; with exactly one word before it and a definition of one
\* source, that word is what execute_mapping reads as the location of the
\* source, under the alias it looks up; with more words they are alias and
\* location pairs, and the output location is never the location of a source.
C21_EntryBinds ==
    (executed.routine = "__main__" /\ executed.called) =>
        LET argv == doc.argv
            last == Len(argv) - 1
        IN  /\ executed.output_path = argv[Len(argv)]
            /\ (last = 2 /\ Len(doc.sources) = 1) =>
                   /\ executed.input_for[1].found
                   /\ executed.input_for[1].at = 1
            /\ last > 2 =>
                   \A k \in 1..Len(executed.inputs) :
                       /\ executed.inputs[k].at < last
                       /\ executed.inputs[k].key = argv[executed.inputs[k].at]

\* the text is the second spelling of the document
IsRespelt == text = Join(<<" ">>, CaseWords(doc))
\* word i of the second spelling is one of the keywords, and the tokens are
\* the words one by one
KeywordAt(i) ==
    /\ Len(tokens) = Len(CaseWords(doc))
    /\ ToUpper(CaseWords(doc)[i]) \in CaseKeywords

\* C22: a word that is a keyword in any mix of letter cases is tokenized
\* with the kind of the keyword, and a document whose keywords are spelt in
\* another letter case parses to a mapping definition equal to the one the
\* document parses to.
C22_KeywordCase ==
    IsRespelt =>
        /\ \A i \in 1..Len(tokens) :
               KeywordAt(i) => tokens[i].type = Str(ToUpper(CaseWords(doc)[i]))
        /\ (Len(outcomes) = 2 /\ outcomes[1].ok) => outcomes[2] = outcomes[1]

InLoopBody(closing) ==
    /\ Cur(tokens, pos) # NoneTok
    /\ Cur(tokens, pos).type # closing

\* C24: parse() terminates because every iteration of the loops of
\* parse_rules, parse_loop_rule and parse_function_call, started on a token
\* that does not close the loop, moves the cursor forward or raises.
C24_IterationAdvances ==
    /\ (pc = "rules_loop" /\ InLoopBody("RBRACE")) =>
           ENABLED (ParseRulesIter /\ (pos' > pos \/ pc' = "error"))
    /\ (pc = "loop_loop" /\ InLoopBody("RBRACE")) =>
           ENABLED (ParseLoopIter /\ (pos' > pos \/ pc' = "error"))
    /\ (pc = "func_args" /\ InLoopBody("RPAREN")) =>
           ENABLED (ParseFunctionArgIter /\ (pos' > pos \/ pc' = "error"))

\* parse_mapping is running or has ended: the tokens are stored and the
\* cursor was reset (line 110)
InParse == pc \notin {"idle", "lex"}

C26_WholeStreamConsumed ==
    (pc = "done" /\ LastOutcome.ok) => pos = Len(tokens)

\* a stretch of text tokenize() may drop: whitespace, or a comment up to the
\* end of its line
Discardable(s) ==
    \/ \A i \in 1..Len(s) : s[i] \in SpaceChar
    \/ s[1] = "#" /\ \A i \in 1..Len(s) : s[i] # "\n"

\* C27: every iteration of the loop of tokenize() raises or moves the
\* position forward by at least one character, inside the text; what it
\* moved over is the value of the one token it appends, or is whitespace or
\* a comment and nothing is appended; and tokenize() returns with the
\* position at the end of the text.  The lexemes and the dropped stretches
\* are so consecutive from offset 0 to the end.
C27_LexCoversText ==
    [][pc = "lex" =>
         \/ pc' = "error" /\ lpos' = lpos /\ ltokens' = ltokens
         \/ /\ pc' = "lex"
            /\ lpos' > lpos /\ lpos' <= Len(text)
            /\ LET lexeme == SubSeq(text, lpos + 1, lpos')
               IN  \/ /\ Len(ltokens') = Len(ltokens) + 1
                      /\ SubSeq(ltokens', 1, Len(ltokens)) = ltokens
                      /\ ltokens'[Len(ltokens')].value = lexeme
                      /\ ~Discardable(lexeme)
                   \/ ltokens' = ltokens /\ Discardable(lexeme)
         \/ pc' = "mapping_head" /\ lpos = Len(text) /\ tokens' = ltokens]_vars

\* C27 witness: tokenize() is at the end of a text in which it has dropped
\* a comment and the line end after it and kept the token that follows.
C27_Witness ==
    /\ pc = "lex"
    /\ lpos = Len(text)
    /\ Len(ltokens) = 1
    /\ text[1] = "#"
    /\ \E i \in 1..Len(text) : text[i] = "\n"

\* the formats of the sources of the document are pairwise different
FormatsDiffer(d) ==
    \A i, j \in 1..Len(d.sources) :
        i # j => ToUpper(d.sources[i].type) # ToUpper(d.sources[j].type)

\* C28: for a definition with several sources of different formats the
\* program reads every source: each call of a reader that execute_mapping
\* makes finds the routine defined, with the parameters the call passes, and
\* returns the records of the source.
C28_OwnReader ==
    (Ran /\ Len(doc.sources) >= 2 /\ FormatsDiffer(doc)) =>
        /\ Len(StepsOf("read")) = Len(doc.sources)
        /\ \A i \in 1..Len(StepsOf("read")) :
               /\ StepsOf("read")[i].outcome.k = "return"
               /\ ~StepsOf("read")[i].outcome.stub

\* the operators of two characters and the token kinds named for them
TwoCharOps == { <<">", "=">>, <<"<", "=">>, <<"=", "=">>, <<"-", ">">> }
OpKind(op) ==
    CASE op = <<">", "=">> -> "GE"
      [] op = <<"<", "=">> -> "LE"
      [] op = <<"=", "=">> -> "EQ"
      [] op = <<"-", ">">> -> "ARROW"
\* the two characters at the position of tokenize(), if there are two
AtLpos == IF lpos + 2 <= Len(text) THEN SubSeq(text, lpos + 1, lpos + 2) ELSE <<>>

\* C29: where the text reads >=, <=, == or -> at the position of the
\* tokenizer, the iteration yields the one token GE, LE, EQ or ARROW of both
\* characters.
C29_LongestOperator ==
    (pc = "lex" /\ AtLpos \in TwoCharOps) =>
        ENABLED (/\ LexStep
                 /\ lpos' = lpos + 2
                 /\ ltokens' = Append(ltokens, Token(OpKind(AtLpos), AtLpos)))

\* C30: what parse_mapping returns depends on its text alone: after any
\* earlier calls on the instance, the name, the source type, the target type
\* (CSV when the text has no such section) and the rules it returns are
\* those a new SimpleMapper returns for the text.
C30_DependsOnTextAlone ==
    executed.routine = "SimpleMapper" =>
        \A i \in 1..Len(executed.calls) :
            executed.calls[i].returned = ReturnedMapping(NewMapper, executed.calls[i].text)

=============================================================================
